---- MODULE Spec2Model ----
(***************************************************************************)
(* Model of the job orchestration core of api-wrapper/app.js: the API key  *)
(* middleware, the job registry (JOBS, setJob, pushLog), the per-job       *)
(* supervisor created by POST /jobs (watchdog interval, onData, exit/close *)
(* handlers) and the stop cascade of POST /jobs/:id/stop.                  *)
(*                                                                         *)
(* Node runs every handler to completion, so each handler (or each segment *)
(* of an async handler between two awaits) is one action.                  *)
(*                                                                         *)
(* Strings are modelled as sequences of tokens: the empty sequence is the  *)
(* empty/undefined (falsy) string, a UUID-shaped string is a one-token     *)
(* sequence whose token is in UuidTokens, "meetbot-<uuid>" is              *)
(* <<"meetbot-", u>>.  An output line is a sequence of fragments, each      *)
(* fragment being the piece of text one regular expression can match.      *)
(*                                                                         *)
(* Time is Date.now() in milliseconds.  Handlers run at the multiples of    *)
(* TickMs and Late ms after each.  A setInterval callback runs when it is  *)
(* due or any time later, the event loop being held by whatever handler    *)
(* runs, and is next due TickMs after it ran.                              *)
(***************************************************************************)
EXTENDS Integers, Sequences, FiniteSets, TLC

\* ------------------------------------------------------------------ bounds
\* BOT_IDLE_TIMEOUT_MS / BOT_MAX_TIMEOUT_MS are read from the environment;
\* the model configures them as a number of watchdog periods.
IdlePeriods == 1
MaxPeriods == 3
\* Stop requests accepted per job.
MaxStops == 1
\* Log lines missing to the cap at the start of the log specification, and
\* output lines the worker prints in it.
LogHeadroom == 50
LogLines == 150
\* Non-blank output lines accepted per job: in the output specification, and
\* in the specifications with a clock or stop requests.
MaxOutLines == 2
MaxLifeLines == 1
\* Fragments per line in the rule specification.
MaxFrags == 2
\* Non-blank output lines per job in the log-stream specification.
MaxRelayLines == 3
\* start() calls made on an instance, speaker segments of a recording.
MaxStarts == 2
MaxSegments == 1

\* ------------------------------------------------------------------ constants
TickMs == 5000
LOG_CAP == 5000
SKEW_MS == 5000

BOT_IDLE_TIMEOUT_MS == IdlePeriods * TickMs
BOT_MAX_TIMEOUT_MS == MaxPeriods * TickMs

T0 == TickMs
Late == 1                   \* ms by which a timer callback runs after it is due
\* The clock stops when every watchdog set at T0 or Late after it has fired.
MaxTime == T0 + (MaxPeriods + 1) * TickMs + Late
\* The first instant at which the idle watchdog of a silent worker fires.
IdleHorizon == T0 + IdlePeriods * TickMs + Late

JobIds == {"job1"}          \* the job of the specifications with one job
AllJobs == {"job1", "job2"} \* the ids newJobId() returns
UuidTokens == {"A", "B"}
ExitCodes == {0, 1}
NoCode == 0 - 99            \* JS null / undefined for a numeric exit code
SpawnErrCode == 0 - 2       \* negative errno handed to 'close' after a failed spawn

EmptyObj == [x \in {} |-> 0]

\* ------------------------------------------------------------------ strings
isUuidDirName(name) == Len(name) = 1 /\ name[1] \in UuidTokens

\* cname.replace(/^meetbot-/, "")
stripMeetbot(cname) ==
  IF Len(cname) > 0 /\ cname[1] = "meetbot-" THEN Tail(cname) ELSE cname

Frag(k, v) == [k |-> k, v |-> v]

\* The identifier rules, in priority order.
UUID_PATTERNS ==
  << "recordings_path", "bot_uuid_label", "session_id", "json_bot_uuid", "json_id" >>

\* s.match(r): the leftmost match of rule r in the line, <<>> when none.
matchRule(line, r) ==
  LET S == { i \in 1..Len(line) : line[i].k = r /\ isUuidDirName(line[i].v) }
  IN IF S = {} THEN <<>>
     ELSE line[CHOOSE i \in S : \A k \in S : i <= k].v

MutExtractLeftmost(line) ==
  LET S == { i \in 1..Len(line) : \E r \in 1..Len(UUID_PATTERNS) :
               line[i].k = UUID_PATTERNS[r] /\ isUuidDirName(line[i].v) }
  IN IF S = {} THEN <<>>
     ELSE line[CHOOSE i \in S : \A k \in S : i <= k].v
extractUuidFrom(line) ==
  LET hits == { r \in 1..Len(UUID_PATTERNS) : matchRule(line, UUID_PATTERNS[r]) # <<>> }
  IN IF hits = {} THEN <<>>
     ELSE matchRule(line, UUID_PATTERNS[CHOOSE r \in hits : \A q \in hits : r <= q])

\* line.match(/(?:::container_name::|CONTAINER_NAME:\s*)([A-Za-z0-9_.-]+)/i)
matchContainerName(line) ==
  LET S == { i \in 1..Len(line) : line[i].k = "container_name" /\ line[i].v # <<>> }
  IN IF S = {} THEN <<>>
     ELSE line[CHOOSE i \in S : \A k \in S : i <= k].v

\* ------------------------------------------------------------------ state
VARIABLES
  cfg,        \* MEET_BOT_BASE configured?, the ALLOW_DOCKER_STOP setting
  up,         \* the node process is running
  now,        \* Date.now()
  JOBS,       \* the JOBS map: job id -> job object
  CHILDREN,   \* the CHILDREN map (its key set)
  sup,        \* per job: the worker process and the closure state of POST /jobs
  stop,       \* per job: the stop request in flight and the last response
  hist,       \* per job: record of what was written / what the watchdog did
  reply,      \* the last HTTP request and how it was answered
  tr          \* the AudioTranscriber and the MeetingSummarizer instance

vars == << cfg, up, tr, now, JOBS, CHILDREN, sup, stop, hist, reply >>

\* process.env.ALLOW_DOCKER_STOP: unset, "1" or "0".
DockerStopEnv == {"absent", "1", "0"}
\* (process.env.ALLOW_DOCKER_STOP || "1") === "1"
ALLOW_DOCKER_STOP ==
  (IF cfg.dockerStopEnv = "absent" THEN "1" ELSE cfg.dockerStopEnv) = "1"

\* ------------------------------------------------------------------ registry
Has(j, f) == f \in DOMAIN j
\* JS truthiness of a string-valued field
Truthy(j, f) == Has(j, f) /\ j[f] # <<>>
Str(j, f) == IF Has(j, f) THEN j[f] ELSE <<>>
StatusOf(j) == IF Has(j, "status") THEN j.status ELSE "undefined"
ErrorOf(j) == IF Has(j, "error") THEN j.error ELSE <<>>

JobsGet(J, id) == IF id \in DOMAIN J THEN J[id] ELSE EmptyObj

\* const merged = { updatedAt: now, ...j, ...patch }
MutMergeDropsJob(j, patch, t) ==
  [ f \in {"updatedAt"} \cup DOMAIN patch |->
      IF f \in DOMAIN patch THEN patch[f] ELSE t ]
mergeJob(j, patch, t) ==
  [ f \in {"updatedAt"} \cup DOMAIN j \cup DOMAIN patch |->
      IF f \in DOMAIN patch THEN patch[f]
      ELSE IF f \in DOMAIN j THEN j[f]
      ELSE t ]

setJob(J, id, patch) ==
  LET merged == mergeJob(JobsGet(J, id), patch, now)
  IN [ k \in DOMAIN J \cup {id} |-> IF k = id THEN merged ELSE J[k] ]

\* (j.logs ||= []).push(line); splice to the last LOG_CAP lines
MutAppendKeepOldest(logs, line) ==
  LET l == Append(logs, line)
  IN IF Len(l) > LOG_CAP THEN SubSeq(l, 1, LOG_CAP) ELSE l
appendLog(logs, line) ==
  LET l == Append(logs, line)
  IN IF Len(l) > LOG_CAP THEN SubSeq(l, Len(l) - LOG_CAP + 1, Len(l)) ELSE l

\* j.clients maps each registered response stream to the lines written to it.
\* for (const res of j.clients || []) res.write(`data: ${line}\n\n`)
MutPushLogNoFanOut(J, id, line) ==
  LET J1 == setJob(J, id, EmptyObj)
      j == J1[id]
      logs == IF Has(j, "logs") THEN j.logs ELSE <<>>
      j2 == [ f \in DOMAIN j \cup {"logs"} |->
                IF f = "logs" THEN appendLog(logs, line) ELSE j[f] ]
  IN [ J1 EXCEPT ![id] = j2 ]
pushLog(J, id, line) ==
  LET J1 == setJob(J, id, EmptyObj)
      j == J1[id]
      logs == IF Has(j, "logs") THEN j.logs ELSE <<>>
      j2 == [ f \in DOMAIN j \cup {"logs"} |->
                IF f = "logs" THEN appendLog(logs, line)
                ELSE IF f = "clients"
                THEN [ res \in DOMAIN j.clients |-> Append(j.clients[res], line) ]
                ELSE j[f] ]
  IN [ J1 EXCEPT ![id] = j2 ]

ApiLine(words) == [src |-> "[api]", l |-> << Frag("text", words) >>]
BotLine(src, line) == [src |-> src, l |-> line]

RECURSIVE pushLines(_, _, _, _)
\* raw.split("\n").filter(Boolean).forEach(l => pushLog(id, `${src} ${l}`))
pushLines(J, id, src, lines) ==
  IF lines = <<>> THEN J
  ELSE LET J1 == IF Head(lines) # <<>> THEN pushLog(J, id, BotLine(src, Head(lines))) ELSE J
       IN pushLines(J1, id, src, Tail(lines))

\* ------------------------------------------------------------------ init
SupInit ==
  [ proc |-> "none",            \* none | running | killed | exited | closed, or
                                \* failed (ENOENT, before 'close') | nochild (EMFILE)
    code |-> NoCode,            \* the process's exit code (null: NoCode)
    signal |-> "null",          \* the signal that ended the process
    exitCodeFinal |-> NoCode,
    exitSignalFinal |-> "null",
    lastActivity |-> 0,
    startedAt |-> 0,
    guard |-> FALSE,            \* the watchdog interval is set
    lastTick |-> 0,             \* when the watchdog last ran (or was set)
    closePc |-> "none",         \* none | sleep | done
    term |-> FALSE,             \* a SIGTERM was delivered to the live worker
    killTimers |-> 0,           \* pending setTimeout(SIGKILL, 2000)
    hpRetry |-> 0,              \* pending ensureHostPort8080 retry (attempt number)
    hpCname |-> <<>> ]

StopInit ==
  [ pc |-> "idle",              \* idle | s1 | s3
    cname |-> <<>>,             \* job.containerName of the snapshot read at entry
    payload |-> FALSE,          \* a payload could be built from the snapshot
    tried |-> <<>>,             \* strategies attempted by the current/last request
    result |-> "none",
    termSent |-> FALSE,         \* strategy 5: process.kill(pid, "SIGTERM") did not throw
    results |-> <<>>,           \* strategy 2: the exit status 0 or not of each tool, if run
    ran |-> <<>>,               \* strategy 2: the tools run by docker exec, in order
    n |-> 0 ]

HistInit ==
  [ uuidW |-> <<>>,             \* values written to job.uuid, in order
    cnameW |-> <<>>,            \* values written to job.containerName, in order
    firstRule |-> <<>>,         \* identifier of the first line an identifier rule set it from
    conflict |-> FALSE,         \* a later line matched a different identifier
    lateKill |-> FALSE,         \* a SIGKILL went to the worker's pid after its exit
    lastChunkAt |-> 0,          \* time of the last output chunk (spawn time if none)
    chunks |-> 0,               \* 0: no chunk yet, 1: last on stdout, 2: last on stderr
    outLines |-> 0,
    arrived |-> <<>>,           \* the non-empty output lines with their stream, in arrival order
    subAt |-> EmptyObj,         \* per subscriber: lines logged when it registered
    captures |-> <<>>,          \* each capture of a container name: the name, whether
                                \* the job had an identifier, whether one was set from it
    scanned |-> {},             \* the directory entries the fallback scan read
    fires |-> <<>> ]            \* watchdog expiries

\* ------------------------------------------------------------------ requests
\* A path is the list of its segments: "/jobs/<id>/stop" is <<"jobs", id, "stop">>.
API_KEY == << "secret" >>
Keys == { <<>>, << "wrong" >>, API_KEY }      \* the X-API-Key header; <<>>: no header

\* A request (path, header, and for POST /jobs the target URL of the body and
\* whether run_bot.sh exists) with its outcome: "next" when it reached the
\* route, or the error it was answered with.
Request(path, key, url, script, out) ==
  [ path |-> path, key |-> key, url |-> url, script |-> script, out |-> out ]
NoReply == Request(<<>>, <<>>, <<>>, TRUE, "none")

\* req.path === "/health" || (req.path.startsWith("/jobs/") && req.path.endsWith("/logs"))
exemptPath(path) ==
  \/ path = << "health" >>
  \/ Len(path) >= 2 /\ path[1] = "jobs" /\ path[Len(path)] = "logs"

\* The API key middleware: TRUE when it calls next().
MutGateExemptsJobs(path, key) ==
  \/ path = << "health" >> \/ (Len(path) >= 2 /\ path[1] = "jobs")
  \/ key # <<>> /\ key = API_KEY
apiKeyGate(path, key) ==
  \/ exemptPath(path)
  \/ key # <<>> /\ key = API_KEY

\* POST /jobs validation: the error it answers with, "" when it passes.
MutValidateUrlOnly(meeting_url, scriptExists) ==
  IF meeting_url = <<>> THEN "meeting_url required" ELSE ""
submissionError(meeting_url, scriptExists) ==
  IF meeting_url = <<>> THEN "meeting_url required"
  ELSE IF ~scriptExists THEN "run script not found"
  ELSE ""

\* The request ends in the middleware or in validation.
Reject(path, key, url, script, out) ==
  /\ up
  /\ reply' = Request(path, key, url, script, out)
  /\ UNCHANGED << cfg, up, tr, now, JOBS, CHILDREN, sup, stop, hist >>

\* ------------------------------------------------------------------ transcribe, summarize
\* An instance: its private running flag and the start() calls made on it,
\* each a run with its position (the await it is suspended at, or how it
\* ended) and the speaker segments it has left.
InstInit == [ running |-> FALSE, stopped |-> FALSE, runs |-> <<>> ]
TrInit == [ AudioTranscriber |-> InstInit, MeetingSummarizer |-> InstInit ]

Ended == { "ok", "failed", "rejected" }
Active(run) == run.pc \notin Ended
ActiveRuns(inst) == { r \in DOMAIN inst.runs : Active(inst.runs[r]) }

\* finally { this.running = false }, the run having returned or thrown.
settle(inst, r, pc) ==
  [ inst EXCEPT !.running = FALSE, !.runs[r].pc = pc ]

\* start(): throws when the flag is set, before the try; else sets it and
\* runs up to the first await.
begin(inst, first, left) ==
  IF inst.running
  THEN [ inst EXCEPT !.runs = Append(@, [ pc |-> "rejected", left |-> 0 ]) ]
  ELSE [ inst EXCEPT !.running = TRUE,
                     !.runs = Append(@, [ pc |-> first, left |-> left ]) ]

\* stop() { this.running = false; }
halt(inst) == [ inst EXCEPT !.running = FALSE, !.stopped = TRUE ]

\* AudioTranscriber.start, the head of the segment loop: done when no segment
\* is left; 'stopped' when the flag is clear; else cut the next segment.
loopHead(inst, r, left) ==
  IF left = 0 THEN settle(inst, r, "ok")
  ELSE IF ~inst.running THEN settle(inst, r, "failed")
  ELSE [ inst EXCEPT !.runs[r] = [ pc |-> "cut", left |-> left ] ]

\* AudioTranscriber.start resumed after an await: the event log and media
\* duration loaded, or a segment cut and transcribed; a rejection of the await
\* leaves through finally.
transcriberResume(inst, r, ok) ==
  LET run == inst.runs[r]
  IN IF ~ok THEN settle(inst, r, "failed")
     ELSE IF run.pc = "load" THEN loopHead(inst, r, run.left)
     ELSE loopHead(inst, r, run.left - 1)

\* MeetingSummarizer.start resumed after an await: fs.readFile, the model
\* call, fs.writeFile.
summarizerResume(inst, r, ok) ==
  LET run == inst.runs[r]
  IN IF ~ok THEN settle(inst, r, "failed")
     ELSE IF run.pc = "read" THEN [ inst EXCEPT !.runs[r].pc = "call" ]
     ELSE IF run.pc = "call" THEN [ inst EXCEPT !.runs[r].pc = "write" ]
     ELSE settle(inst, r, "ok")

Init ==
  /\ cfg \in [base : BOOLEAN, dockerStopEnv : DockerStopEnv]
  /\ up = TRUE
  /\ tr = TrInit
  /\ now = T0
  /\ JOBS = EmptyObj
  /\ CHILDREN = {}
  /\ sup = [j \in AllJobs |-> SupInit]
  /\ stop = [j \in AllJobs |-> StopInit]
  /\ hist = [j \in AllJobs |-> HistInit]
  /\ reply = NoReply

\* ------------------------------------------------------------------ POST /jobs
MeetingUrl == << "https://meet.example/abc" >>
BotName == << "bot" >>
RecordingsDir == << "recordings" >>

\* ------------------------------------------------------------------ clock
\* The instant after t: each multiple of TickMs, and Late ms after it.
NextInstant(t) == IF (t - T0) % TickMs = 0 THEN t + Late ELSE t - Late + TickMs

\* Time passes.  Nothing makes a timer callback run when it is due: a handler
\* that sits in execSync or spawnSync (docker port, docker exec, docker stop)
\* keeps the event loop for as long as docker takes, so any number of instants
\* may pass between two handlers.  The first job is submitted at T0 or Late
\* after it.
AdvanceTo(limit) ==
  /\ up
  /\ now < limit
  /\ DOMAIN JOBS = {} => now < T0 + Late
  /\ now' = NextInstant(now)
  /\ UNCHANGED << cfg, up, tr, reply, JOBS, CHILDREN, sup, stop, hist >>

Advance == AdvanceTo(MaxTime)

\* ------------------------------------------------------------------ output
\* The output lines the worker may print.
IdA == << "A" >>
IdB == << "B" >>
Lines ==
  { << Frag("text", <<"joining">>) >>,
    << Frag("json_bot_uuid", IdA) >>,
    << Frag("recordings_path", IdB) >>,
    << Frag("container_name", <<"meetbot-", "B">>) >>,
    << Frag("container_name", <<"web">>) >>,
    << Frag("container_name", IdA) >>,
    << Frag("json_bot_uuid", IdA), Frag("container_name", <<"meetbot-", "B">>) >> }

\* A chunk is the list raw.split("\n"); << <<>> >> is a chunk with no text.
Chunks ==
  { << <<>> >> } \cup { << l >> : l \in Lines } \cup { << l, m >> : l \in Lines, m \in Lines }

HostPorts == {0, 49155}     \* dockerGetHostPort8080: 0 when docker reports none

NonBlank(chunk) == Cardinality({ i \in 1..Len(chunk) : chunk[i] # <<>> })

\* The non-empty lines of a chunk, each with the chunk's stream.
Tagged(src, chunk) ==
  [ i \in 1..NonBlank(chunk) |->
      [ src |-> src,
        l |-> chunk[CHOOSE k \in 1..Len(chunk) :
                      /\ chunk[k] # <<>>
                      /\ Cardinality({ m \in 1..k : chunk[m] # <<>> }) = i] ] ]

\* lastActivity = Date.now()
MutActivityStdoutOnly(src, last, t) == IF src = "[bot:stdout]" THEN t ELSE last
activityOnData(src, last, t) == t

\* if (nameMatch && !jcur.containerName)
MutCaptureAlways(jcur, nameMatch) == nameMatch # <<>>
mayCaptureContainer(jcur, nameMatch) ==
  nameMatch # <<>> /\ ~Truthy(jcur, "containerName")

\* ensureHostPort8080(jobId, cname, attempt): s carries the registry and the
\* pending retry timer.
ensureHostPort8080(s, id, cname, attempt, hp) ==
  IF cname = <<>> THEN s
  ELSE IF hp # 0
  THEN [ s EXCEPT !.J = pushLog(setJob(s.J, id, [ hostPort8080 |-> hp ]), id,
                                ApiLine(<<"mapped container">>)),
                  !.hpRetry = 0 ]
  ELSE IF attempt < 3
  THEN [ s EXCEPT !.hpRetry = attempt + 1, !.hpCname = cname ]
  ELSE [ s EXCEPT !.hpRetry = 0 ]

\* The body of the loop "for (const line of raw.split('\n'))" of onData.
onDataLine(s, id, line, hp) ==
  LET jcur == JobsGet(s.J, id)
      maybe == extractUuidFrom(line)
      derived == IF isUuidDirName(stripMeetbot(matchContainerName(line)))
                 THEN stripMeetbot(matchContainerName(line)) ELSE <<>>
      s0 == IF s.firstRule # <<>> /\ ({maybe, derived} \ {<<>>, s.firstRule}) # {}
            THEN [ s EXCEPT !.conflict = TRUE ] ELSE s
      s1 == IF ~Truthy(jcur, "uuid") /\ maybe # <<>>
            THEN [ s0 EXCEPT !.J = setJob(s.J, id, [ uuid |-> maybe ]),
                             !.uuidW = Append(s.uuidW, maybe),
                             !.firstRule = IF s.firstRule = <<>> THEN maybe ELSE s.firstRule ]
            ELSE s0
      cname == matchContainerName(line)
      maybe2 == stripMeetbot(cname)
      s2 == [ s1 EXCEPT !.J = setJob(setJob(s1.J, id, [ containerName |-> cname ]),
                                     id, [ containerName |-> cname ]),
                        !.cnameW = s1.cnameW \o << cname, cname >>,
                        !.captures = Append(s1.captures,
                          [ cname |-> cname,
                            hadUuid |-> Truthy(JobsGet(s1.J, id), "uuid"),
                            setUuid |-> ~Truthy(jcur, "uuid") /\ isUuidDirName(maybe2) ]) ]
      s3 == IF ~Truthy(jcur, "uuid") /\ isUuidDirName(maybe2)
            THEN [ s2 EXCEPT !.J = setJob(s2.J, id, [ uuid |-> maybe2 ]),
                             !.uuidW = Append(s2.uuidW, maybe2) ]
            ELSE s2
  IN IF mayCaptureContainer(jcur, cname)
     THEN ensureHostPort8080(s3, id, cname, 0, hp)
     ELSE s1

RECURSIVE onDataLines(_, _, _, _)
onDataLines(s, id, lines, hp) ==
  IF lines = <<>> THEN s
  ELSE onDataLines(onDataLine(s, id, Head(lines), hp), id, Tail(lines), hp)

\* child.stdout.on("data", onData("[bot:stdout]")) / child.stderr.on("data", ...)
OnData(id, src, chunk, hp) ==
  /\ up
  /\ sup[id].proc \in {"running", "killed", "exited"}
  /\ LET s0 == [ J |-> pushLines(JOBS, id, src, chunk),
                 uuidW |-> hist[id].uuidW, cnameW |-> hist[id].cnameW,
                 firstRule |-> hist[id].firstRule, conflict |-> hist[id].conflict,
                 captures |-> hist[id].captures,
                 hpRetry |-> sup[id].hpRetry, hpCname |-> sup[id].hpCname ]
         s == onDataLines(s0, id, chunk, hp)
     IN /\ JOBS' = s.J
        /\ sup' = [ sup EXCEPT ![id].lastActivity =
                                 activityOnData(src, sup[id].lastActivity, now),
                               ![id].hpRetry = s.hpRetry,
                               ![id].hpCname = s.hpCname ]
        /\ hist' = [ hist EXCEPT ![id].uuidW = s.uuidW,
                                 ![id].cnameW = s.cnameW,
                                 ![id].firstRule = s.firstRule,
                                 ![id].conflict = s.conflict,
                                 ![id].captures = s.captures,
                                 ![id].lastChunkAt = now,
                                 ![id].chunks = IF src = "[bot:stdout]" THEN 1 ELSE 2,
                                 ![id].outLines = @ + NonBlank(chunk),
                                 ![id].arrived = @ \o Tagged(src, chunk) ]
  /\ UNCHANGED << cfg, up, tr, reply, now, CHILDREN, stop >>

\* setTimeout(() => ensureHostPort8080(jobId, cname, attempt + 1), 1200)
HostPortRetry(id, hp) ==
  /\ up
  /\ sup[id].hpRetry > 0
  /\ LET s0 == [ J |-> JOBS, hpRetry |-> 0, hpCname |-> sup[id].hpCname ]
         s == ensureHostPort8080(s0, id, sup[id].hpCname, sup[id].hpRetry, hp)
     IN /\ JOBS' = s.J
        /\ sup' = [ sup EXCEPT ![id].hpRetry = s.hpRetry ]
  /\ UNCHANGED << cfg, up, tr, reply, now, CHILDREN, stop, hist >>

\* ------------------------------------------------------------------ log stream
\* A log consumer registers its response stream with the job: it receives the
\* lines appended from then on and nothing of the buffer.
Subscribe(id, res) ==
  /\ up
  /\ id \in DOMAIN JOBS
  /\ res \notin DOMAIN JOBS[id].clients
  /\ JOBS' = [ JOBS EXCEPT ![id].clients =
                 [ r \in DOMAIN @ \cup {res} |-> IF r = res THEN <<>> ELSE @[r] ] ]
  /\ hist' = [ hist EXCEPT ![id].subAt =
                 [ r \in DOMAIN @ \cup {res} |-> IF r = res THEN Len(JOBS[id].logs) ELSE @[r] ] ]
  /\ UNCHANGED << cfg, up, tr, reply, now, CHILDREN, sup, stop >>

\* The consumer's connection closes: its stream leaves the set.
Unsubscribe(id, res) ==
  /\ up
  /\ id \in DOMAIN JOBS
  /\ res \in DOMAIN JOBS[id].clients
  /\ JOBS' = [ JOBS EXCEPT ![id].clients = [ r \in DOMAIN @ \ {res} |-> @[r] ] ]
  /\ hist' = [ hist EXCEPT ![id].subAt = [ r \in DOMAIN @ \ {res} |-> @[r] ] ]
  /\ UNCHANGED << cfg, up, tr, reply, now, CHILDREN, sup, stop >>

\* ------------------------------------------------------------------ watchdog
\* The two tests of the guard interval, in the order of the code.
MutGuardNoIdle(idleFor, aliveFor) ==
  IF aliveFor > BOT_MAX_TIMEOUT_MS THEN "max_time_exceeded" ELSE "none"
MutGuardNoMax(idleFor, aliveFor) ==
  IF idleFor > BOT_IDLE_TIMEOUT_MS THEN "idle_timeout" ELSE "none"
MutGuardIdleFirst(idleFor, aliveFor) ==
  IF idleFor > BOT_IDLE_TIMEOUT_MS THEN "idle_timeout"
  ELSE IF aliveFor > BOT_MAX_TIMEOUT_MS THEN "max_time_exceeded"
  ELSE "none"
guardDecision(idleFor, aliveFor) ==
  IF aliveFor > BOT_MAX_TIMEOUT_MS THEN "max_time_exceeded"
  ELSE IF idleFor > BOT_IDLE_TIMEOUT_MS THEN "idle_timeout"
  ELSE "none"

\* child.kill("SIGKILL"): signals the process while its handle is open.
MutKillIgnored(proc) == proc
killChild(proc) == IF proc = "running" THEN "killed" ELSE proc

\* One run of the setInterval callback: TickMs or more after the last run (or
\* after setInterval), the next run being due TickMs after this one started.
TickDue(id) == up /\ sup[id].guard /\ now - sup[id].lastTick >= TickMs
GuardTick(id) ==
  /\ TickDue(id)
  /\ LET d == guardDecision(now - sup[id].lastActivity, now - sup[id].startedAt)
     IN IF d = "none"
        THEN /\ sup' = [ sup EXCEPT ![id].lastTick = now ]
             /\ UNCHANGED << JOBS, hist >>
        ELSE /\ sup' = [ sup EXCEPT ![id].lastTick = now,
                                    ![id].proc = killChild(sup[id].proc),
                                    ![id].guard = FALSE ]
             /\ JOBS' = pushLog(setJob(JOBS, id, [ status |-> "timeout", error |-> << d >> ]),
                                id, ApiLine(<<"timeout -> killed", d>>))
             /\ hist' = [ hist EXCEPT ![id].fires =
                            Append(@, [ reason |-> d, proc |-> sup[id].proc,
                                        gap |-> now - hist[id].lastChunkAt,
                                        alive |-> now - sup[id].startedAt ]) ]
  /\ UNCHANGED << cfg, up, tr, reply, now, CHILDREN, stop >>

\* ------------------------------------------------------------------ exit / close
\* What 'exit' may report: a code, or the signal that ended the worker.
ExitInputs == (ExitCodes \X {"null"}) \cup {<<NoCode, "SIGTERM">>, <<NoCode, "SIGKILL">>}
\* The worker ends: child.once("exit") records code and signal.  A worker
\* may end on its own or by a signal from anywhere; one that was sent SIGKILL
\* may have ended before, so that its own code or another signal is reported.
ChildExit(id, code, signal) ==
  /\ up
  /\ sup[id].proc \in {"running", "killed"}
  /\ << code, signal >> \in ExitInputs
  /\ sup' = [ sup EXCEPT ![id].proc = "exited",
                         ![id].code = code, ![id].signal = signal,
                         ![id].exitCodeFinal = code, ![id].exitSignalFinal = signal ]
  /\ UNCHANGED << cfg, up, tr, reply, now, JOBS, CHILDREN, stop, hist >>

\* The 'exit' of a worker that was sent SIGKILL.
KilledExit(id) ==
  /\ sup[id].proc = "killed"
  /\ \E x \in ExitInputs : ChildExit(id, x[1], x[2])

\* findLatestUuidFromRecordingsSince: the names it may return ({<<>>}: undefined).
\* Entries with the same mtime keep their readdir order, so any of them may be
\* first.
NoStat == 0 - 1             \* the mtime of an entry on which fs.statSync throws
findLatestUuidFromRecordingsSince(entries, sinceMs) ==
  LET names == { e \in entries : isUuidDirName(e.name) }
      fresh == { e \in names : sinceMs = 0 \/ e.t >= sinceMs - SKEW_MS }
  IN IF fresh = {} \/ \E e \in names : e.t = NoStat THEN { <<>> }
     ELSE { e.name : e \in { x \in fresh : \A y \in fresh : x.t >= y.t } }

\* The exit reconciliation of child.once("close"), as the patch it applies.
MutReconcileNoUuid(codeEff, sigEff, uuid, dir) ==
  IF codeEff = 0 /\ sigEff = "null"
  THEN [ status |-> "done", exitCode |-> 0, signal |-> "null", recordings |-> dir \o uuid ]
  ELSE [ status |-> "error",
         exitCode |-> IF codeEff = NoCode THEN 0 - 1 ELSE codeEff,
         signal |-> sigEff,
         error |-> IF sigEff # "null" THEN <<"killed_by_", sigEff>> ELSE <<"bot_failed">> ]
reconcile(codeEff, sigEff, uuid, dir) ==
  IF codeEff = 0 /\ sigEff = "null" /\ uuid # <<>>
  THEN [ status |-> "done", exitCode |-> 0, signal |-> "null", recordings |-> dir \o uuid ]
  ELSE [ status |-> "error",
         exitCode |-> IF codeEff = NoCode THEN 0 - 1 ELSE codeEff,
         signal |-> sigEff,
         error |-> IF sigEff # "null" THEN <<"killed_by_", sigEff>>
                   ELSE IF codeEff = 0 THEN <<"completed_without_uuid">>
                   ELSE <<"bot_failed">> ]

codeEffOf(s) == IF s.exitCodeFinal # NoCode THEN s.exitCodeFinal ELSE s.code
sigEffOf(s) == IF s.exitSignalFinal # "null" THEN s.exitSignalFinal ELSE s.signal

\* const j = JOBS.get(id); setJob(...); pushLog(...)  (the end of the close handler)
finishClose(J, id, codeEff, sigEff) ==
  LET j == JobsGet(J, id)
      p == reconcile(codeEff, sigEff, Str(j, "uuid"), Str(j, "recordingsDir"))
  IN pushLog(setJob(J, id, p), id,
             IF p.status = "done" THEN ApiLine(<<"done uuid=">> \o Str(j, "uuid"))
             ELSE ApiLine(<<"error">> \o p.error))

\* What spawn() may do: start the worker; fail to execute the interpreter
\* (ENOENT: 'error' on the next tick, 'close' with the negative errno later);
\* throw (E2BIG); return a child without pipes (EMFILE), on which
\* child.stdout.on throws before the 'error' and 'close' handlers are set, so
\* that the 'error' event of the next tick finds no listener and ends the
\* node process.  A throw in the async handler is an unhandled rejection, on
\* which the process ends or goes on, as the runtime is set.
SpawnOutcomes == { "ok", "ENOENT", "E2BIG", "EMFILE" }

\* POST /jobs: the job is created pending, the worker spawned, the job set
\* running and the watchdog armed; 'spawn', or 'error' after ENOENT, follows
\* on the next tick, before any other handler runs.  After E2BIG the handler
\* has only created the job; after EMFILE it ends with the watchdog armed and
\* the process exits before another handler runs.
startJob(id, meeting_url, spawn) ==
  /\ up
  /\ id \notin DOMAIN JOBS
  /\ LET J1 == setJob(JOBS, id,
                 [ id |-> id, status |-> "pending", meeting_url |-> meeting_url,
                   bot_name |-> BotName, extra |-> <<>>,
                   createdAt |-> now, updatedAt |-> now, startedAt |-> now,
                   logs |-> <<>>, clients |-> EmptyObj, recordingsDir |-> RecordingsDir ])
         J2 == setJob(J1, id, [ status |-> "running", pid |-> IF spawn = "ok" THEN 4242 ELSE 0 ])
         J3 == CASE spawn = "ok" -> pushLog(J2, id, ApiLine(<<"spawned">>))
                 [] spawn = "ENOENT" ->
                      pushLog(setJob(J2, id, [ status |-> "error", error |-> <<"Error: spawn">> ]),
                              id, ApiLine(<<"error", "Error: spawn">>))
                 [] spawn = "E2BIG" -> J1
                 [] OTHER -> J2
         armed == [ SupInit EXCEPT !.lastActivity = now,
                                   !.startedAt = now,
                                   !.guard = TRUE,
                                   !.lastTick = now ]
     IN /\ JOBS' = J3
        /\ CHILDREN' = IF spawn = "E2BIG" THEN CHILDREN ELSE CHILDREN \cup {id}
        /\ sup' = [ sup EXCEPT ![id] =
                      CASE spawn = "ok" -> [ armed EXCEPT !.proc = "running" ]
                        [] spawn = "ENOENT" -> [ armed EXCEPT !.proc = "failed",
                                                              !.code = SpawnErrCode ]
                        [] spawn = "E2BIG" -> SupInit
                        [] OTHER -> [ armed EXCEPT !.proc = "nochild" ] ]
        /\ hist' = [ hist EXCEPT ![id] = [ HistInit EXCEPT !.lastChunkAt = now ] ]
        /\ up' \in IF spawn = "ok" \/ spawn = "ENOENT" THEN { TRUE }
                   ELSE IF spawn = "E2BIG" THEN BOOLEAN ELSE { FALSE }
  /\ UNCHANGED << cfg, tr, now, stop >>

\* POST /jobs behind the middleware: unauthorized, or rejected by validation,
\* or the job is started under the id newJobId() returns.
PostJobs(key, meeting_url, scriptExists, id, spawn) ==
  IF ~apiKeyGate(<< "jobs" >>, key)
  THEN Reject(<< "jobs" >>, key, meeting_url, scriptExists, "unauthorized")
  ELSE IF submissionError(meeting_url, scriptExists) # ""
  THEN Reject(<< "jobs" >>, key, meeting_url, scriptExists,
              submissionError(meeting_url, scriptExists))
  ELSE /\ startJob(id, meeting_url, spawn)
       /\ reply' = Request(<< "jobs" >>, key, meeting_url, scriptExists,
                           IF spawn \in { "E2BIG", "EMFILE" } THEN "no response" ELSE "next")

\* A valid submission with the API key.
Submit(id, spawn) == PostJobs(API_KEY, MeetingUrl, TRUE, id, spawn)

\* child.once("close"), up to "await sleep(500)" when the fallback scan is due.
CloseDue(id) == up /\ sup[id].proc \in {"exited", "failed"}
MutCloseKeepsHandle(id) ==
  /\ up
  /\ CloseDue(id)
  /\ CHILDREN' = CHILDREN
  /\ LET j0 == JobsGet(JOBS, id)
         scan == ~Truthy(j0, "uuid") /\ codeEffOf(sup[id]) = 0 /\ sigEffOf(sup[id]) = "null"
     IN /\ sup' = [ sup EXCEPT ![id].proc = "closed",
                               ![id].guard = FALSE,
                               ![id].closePc = IF scan THEN "sleep" ELSE "done" ]
        /\ JOBS' = IF scan THEN JOBS
                   ELSE finishClose(JOBS, id, codeEffOf(sup[id]), sigEffOf(sup[id]))
  /\ UNCHANGED << cfg, up, tr, reply, now, stop, hist >>
CloseBegin(id) ==
  /\ up
  /\ CloseDue(id)
  /\ CHILDREN' = CHILDREN \ {id}
  /\ LET j0 == JobsGet(JOBS, id)
         scan == ~Truthy(j0, "uuid") /\ codeEffOf(sup[id]) = 0 /\ sigEffOf(sup[id]) = "null"
     IN /\ sup' = [ sup EXCEPT ![id].proc = "closed",
                               ![id].guard = FALSE,
                               ![id].closePc = IF scan THEN "sleep" ELSE "done" ]
        /\ JOBS' = IF scan THEN JOBS
                   ELSE finishClose(JOBS, id, codeEffOf(sup[id]), sigEffOf(sup[id]))
  /\ UNCHANGED << cfg, up, tr, reply, now, stop, hist >>

\* What the recordings directory may hold when it is scanned.
DirNames == { IdA, IdB, <<"tmp">> }
DirEntries(since) ==
  { [name |-> n, t |-> t] :
      n \in DirNames, t \in { since - 2 * SKEW_MS, since - SKEW_MS, since + TickMs, NoStat } }
DirListings(since) ==
  { es \in SUBSET DirEntries(since) :
      /\ Cardinality(es) <= 2
      /\ \A x \in es, y \in es : x.name = y.name => x = y }

\* child.once("close") after the sleep: fallback scan, then reconciliation.
ResumeDue(id) == up /\ sup[id].closePc = "sleep"
CloseResume(id, entries, fallback) ==
  /\ up
  /\ ResumeDue(id)
  /\ LET j0 == JobsGet(JOBS, id)
         since == IF Has(j0, "startedAt") /\ j0.startedAt # 0 THEN j0.startedAt
                  ELSE IF Has(j0, "createdAt") THEN j0.createdAt ELSE 0
     IN /\ entries \in DirListings(since)
        /\ fallback \in findLatestUuidFromRecordingsSince(entries, since)
  /\ LET J1 == IF fallback # <<>> THEN setJob(JOBS, id, [ uuid |-> fallback ]) ELSE JOBS
     IN JOBS' = finishClose(J1, id, codeEffOf(sup[id]), sigEffOf(sup[id]))
  /\ sup' = [ sup EXCEPT ![id].closePc = "done" ]
  /\ hist' = [ hist EXCEPT ![id].uuidW =
                 IF fallback # <<>> THEN Append(@, fallback) ELSE @,
                           ![id].scanned = entries ]
  /\ UNCHANGED << cfg, up, tr, reply, now, CHILDREN, stop >>

\* ------------------------------------------------------------------ POST /jobs/:id/stop
ExecTools == 1..5           \* node, python3, curl, wget, busybox wget
\* results[t]: "docker exec" of tool t would exit with status 0.
ExecResults == [ ExecTools -> BOOLEAN ]
NoTool == [ t \in ExecTools |-> FALSE ]
AllTools == [ t \in ExecTools |-> TRUE ]

\* dockerExecStopRecord: each block runs its tool with spawnSync and returns
\* when r.status === 0; after the last block it throws
\* docker_exec_stop_failed_all.  ran: the tools run, in order.
RECURSIVE tryExec(_, _)
tryExec(t, results) ==
  IF t > 5 THEN [ ok |-> FALSE, ran |-> <<>> ]
  ELSE IF results[t] THEN [ ok |-> TRUE, ran |-> << t >> ]
  ELSE LET rest == tryExec(t + 1, results)
       IN [ ok |-> rest.ok, ran |-> << t >> \o rest.ran ]
MutExecRunsEveryTool(results) ==
  [ ok |-> \E t \in ExecTools : results[t], ran |-> << 1, 2, 3, 4, 5 >> ]
dockerExecStopRecord(results) == tryExec(1, results)

\* setJob(jobId, { status: "stopping" }); return res.json({ success: true, via })
\* st is the request's record, tried the strategies attempted so far.
MutSucceedKeepsStatus(id, st, via, tried) ==
  /\ stop' = [ stop EXCEPT ![id] = [ st EXCEPT !.pc = "idle", !.tried = tried, !.result = via ] ]
  /\ UNCHANGED << JOBS, CHILDREN, sup >>
MutSucceedFromSnapshot(id, st, via, tried) ==
  /\ JOBS' = setJob(JOBS, id, [ status |-> "stopping", containerName |-> st.cname ])
  /\ stop' = [ stop EXCEPT ![id] = [ st EXCEPT !.pc = "idle", !.tried = tried, !.result = via ] ]
  /\ UNCHANGED << CHILDREN, sup >>
StopSucceed(id, st, via, tried) ==
  /\ JOBS' = setJob(JOBS, id, [ status |-> "stopping" ])
  /\ stop' = [ stop EXCEPT ![id] = [ st EXCEPT !.pc = "idle", !.tried = tried, !.result = via ] ]
  /\ UNCHANGED << CHILDREN, sup >>

\* return res.status(502).json({ success: false, error: "stop_unavailable" })
MutFailMarksStopping(id, st, tried) ==
  /\ JOBS' = setJob(JOBS, id, [ status |-> "stopping" ])
  /\ stop' = [ stop EXCEPT ![id] =
                 [ st EXCEPT !.pc = "idle", !.tried = tried, !.result = "stop_unavailable" ] ]
  /\ UNCHANGED << CHILDREN, sup >>
StopFail(id, st, tried) ==
  /\ stop' = [ stop EXCEPT ![id] =
                 [ st EXCEPT !.pc = "idle", !.tried = tried, !.result = "stop_unavailable" ] ]
  /\ UNCHANGED << JOBS, CHILDREN, sup >>

\* process.kill(child.pid, "SIGTERM") throws when no such process exists: the
\* pid exists until the worker's exit has been processed, also after a SIGKILL;
\* afterwards the call succeeds when the system has given the pid to another
\* process, which then receives the signal.
termDelivered(proc, pidReused) ==
  proc \in {"running", "killed"} \/ (pidReused /\ proc = "exited")

\* 5) the local signal: SIGTERM now, SIGKILL from a timer 2 s later.
MutLocalKillWithoutHandle(id, st, tried) ==
  /\ sup' = [ sup EXCEPT ![id].term = @ \/ termDelivered(sup[id].proc, FALSE),
                         ![id].killTimers = @ + 1 ]
  /\ JOBS' = setJob(JOBS, id, [ status |-> "stopping" ])
  /\ stop' = [ stop EXCEPT ![id] =
                 [ st EXCEPT !.pc = "idle", !.tried = Append(tried, 5),
                             !.result = "local_kill" ] ]
  /\ UNCHANGED CHILDREN
StopFrom5(id, st, tried) ==
  IF id \in CHILDREN
  THEN /\ sup' = [ sup EXCEPT ![id].term = @ \/ termDelivered(sup[id].proc, FALSE),
                              ![id].killTimers = @ + 1 ]
       /\ JOBS' = setJob(JOBS, id, [ status |-> "stopping" ])
       /\ \E pidReused \in BOOLEAN :
            stop' = [ stop EXCEPT ![id] =
                       [ st EXCEPT !.pc = "idle", !.tried = Append(tried, 5),
                                   !.result = "local_kill",
                                   !.termSent = termDelivered(sup[id].proc, pidReused) ] ]
       /\ UNCHANGED CHILDREN
  ELSE StopFail(id, st, tried)

\* 4) docker stop <containerName>, when ALLOW_DOCKER_STOP
MutStopLocalFirst(id, st, tried, dockerStopOk) ==
  IF id \in CHILDREN THEN StopFrom5(id, st, tried)
  ELSE IF ALLOW_DOCKER_STOP /\ st.cname # <<>> /\ dockerStopOk
  THEN StopSucceed(id, st, "docker_stop_name", Append(tried, 4))
  ELSE StopFail(id, st, tried)
StopFrom4(id, st, tried, dockerStopOk) ==
  IF ALLOW_DOCKER_STOP /\ st.cname # <<>>
  THEN IF dockerStopOk THEN StopSucceed(id, st, "docker_stop_name", Append(tried, 4))
       ELSE StopFrom5(id, st, Append(tried, 4))
  ELSE StopFrom5(id, st, tried)

\* 2) docker exec inside the container, then 3) HTTP to the container, which
\* awaits a reply when docker reports a host port or an address.
StopFrom2(id, st, tried, tool, route, dockerStopOk) ==
  IF st.cname # <<>> /\ st.payload
  THEN LET out == dockerExecStopRecord(tool)
           st2 == [ st EXCEPT !.results = tool, !.ran = out.ran ]
       IN IF out.ok THEN StopSucceed(id, st2, "stop_record_docker_exec", Append(tried, 2))
          ELSE IF route
          THEN /\ stop' = [ stop EXCEPT ![id] =
                              [ st2 EXCEPT !.pc = "s3", !.tried = tried \o << 2, 3 >>,
                                           !.result = "pending" ] ]
               /\ UNCHANGED << JOBS, CHILDREN, sup >>
          ELSE StopFrom4(id, st2, tried \o << 2, 3 >>, dockerStopOk)
  ELSE StopFrom4(id, st, tried, dockerStopOk)

\* The handler up to its first await: the job snapshot, the payload, and
\* 1) the control-plane call when MEET_BOT_BASE is configured.
stopJob(id, tool, route, dockerStopOk) ==
  /\ up
  /\ id \in DOMAIN JOBS
  /\ stop[id].pc = "idle"
  /\ stop[id].n < MaxStops
  /\ LET job == JOBS[id]
         st == [ stop[id] EXCEPT !.n = @ + 1,
                                 !.cname = Str(job, "containerName"),
                                 !.termSent = FALSE,
                                 !.results = <<>>,
                                 !.ran = <<>>,
                                 !.payload = Truthy(job, "uuid") \/ Truthy(job, "meeting_url") ]
     IN IF cfg.base /\ st.payload
        THEN /\ stop' = [ stop EXCEPT ![id] =
                            [ st EXCEPT !.pc = "s1", !.tried = << 1 >>, !.result = "pending" ] ]
             /\ UNCHANGED << JOBS, CHILDREN, sup >>
        ELSE StopFrom2(id, st, <<>>, tool, route, dockerStopOk)
  /\ UNCHANGED << cfg, up, tr, now, hist >>

\* POST /jobs/:id/stop behind the middleware: unauthorized, or job_not_found,
\* or the stop handler runs.
PostStop(key, id, tool, route, dockerStopOk) ==
  IF ~apiKeyGate(<< "jobs", id, "stop" >>, key)
  THEN Reject(<< "jobs", id, "stop" >>, key, <<>>, TRUE, "unauthorized")
  ELSE IF id \notin DOMAIN JOBS
  THEN Reject(<< "jobs", id, "stop" >>, key, <<>>, TRUE, "job_not_found")
  ELSE /\ stopJob(id, tool, route, dockerStopOk)
       /\ reply' = Request(<< "jobs", id, "stop" >>, key, <<>>, TRUE, "next")

\* A stop request with the API key on a known job.
StopRequest(id, tool, route, dockerStopOk) ==
  /\ id \in DOMAIN JOBS
  /\ PostStop(API_KEY, id, tool, route, dockerStopOk)

\* A request to a route that changes nothing: GET /health, GET
\* /jobs/:id/status, GET /s3/presign-get, or a path without route.
Get(path, key) ==
  IF apiKeyGate(path, key) THEN Reject(path, key, <<>>, TRUE, "next")
  ELSE Reject(path, key, <<>>, TRUE, "unauthorized")

\* The control-plane call of strategy 1 has answered or failed.
MutBaseReplyAlsoKills(id, ok, tool, route, dockerStopOk) ==
  /\ up
  /\ stop[id].pc = "s1"
  /\ IF ok
     THEN /\ JOBS' = setJob(JOBS, id, [ status |-> "stopping" ])
          /\ stop' = [ stop EXCEPT ![id].pc = "idle", ![id].result = "stop_record_http_base" ]
          /\ sup' = [ sup EXCEPT ![id].killTimers = @ + 1 ]
          /\ UNCHANGED CHILDREN
     ELSE StopFrom2(id, stop[id], stop[id].tried, tool, route, dockerStopOk)
  /\ UNCHANGED << cfg, up, tr, reply, now, hist >>
StopBaseReply(id, ok, tool, route, dockerStopOk) ==
  /\ up
  /\ stop[id].pc = "s1"
  /\ IF ok THEN StopSucceed(id, stop[id], "stop_record_http_base", stop[id].tried)
     ELSE StopFrom2(id, stop[id], stop[id].tried, tool, route, dockerStopOk)
  /\ UNCHANGED << cfg, up, tr, reply, now, hist >>

\* The HTTP call to the container of strategy 3 has answered or failed.
StopContainerReply(id, ok, dockerStopOk) ==
  /\ up
  /\ stop[id].pc = "s3"
  /\ IF ok THEN StopSucceed(id, stop[id], "stop_record_http_container", stop[id].tried)
     ELSE StopFrom4(id, stop[id], stop[id].tried, dockerStopOk)
  /\ UNCHANGED << cfg, up, tr, reply, now, hist >>

\* setTimeout(() => process.kill(child.pid, "SIGKILL"), 2000): the timer is
\* never cleared and signals the pid, not the child handle.  Once the worker
\* has exited the pid is stale: the call throws ESRCH, or, when the system has
\* given the pid to another process, delivers SIGKILL to that process.
KillTimer(id, pidReused) ==
  /\ up
  /\ sup[id].killTimers > 0
  /\ sup' = [ sup EXCEPT ![id].killTimers = @ - 1,
                         ![id].proc = killChild(sup[id].proc) ]
  /\ hist' = [ hist EXCEPT ![id].lateKill =
                 @ \/ (pidReused /\ sup[id].proc \in {"exited", "closed"}) ]
  /\ UNCHANGED << cfg, up, tr, reply, now, JOBS, CHILDREN, stop >>

\* ------------------------------------------------------------------ specifications
Sources == {"[bot:stdout]", "[bot:stderr]"}

\* MEET_BOT_BASE unset, ALLOW_DOCKER_STOP at its default
InitDefault == Init /\ cfg = [base |-> FALSE, dockerStopEnv |-> "absent"]

\* Output of the specifications with a clock or stop requests: a chunk without
\* text, a container line, an identifier line; docker reports the host port.
ChunksLife ==
  { << <<>> >>,
    << << Frag("container_name", <<"web">>) >> >>,
    << << Frag("json_bot_uuid", IdA) >> >> }

HasContainerLine(chunk) == \E i \in 1..Len(chunk) : matchContainerName(chunk[i]) # <<>>

\* The supervisor's events, the fallback scan reading one of the listings.
SuperviseOn(listings) ==
  \/ \E id \in JobIds, spawn \in SpawnOutcomes : Submit(id, spawn)
  \/ \E id \in JobIds, x \in ExitInputs : ChildExit(id, x[1], x[2])
  \/ \E id \in JobIds : CloseBegin(id)
  \/ \E id \in JobIds, entries \in listings, fallback \in DirNames \cup { <<>> } :
       CloseResume(id, entries, fallback)

\* Recordings directory of the specifications with a clock or stop requests:
\* empty, or holding one recording written after the job's start.
LifeListings ==
  { {} } \cup { { [name |-> n, t |-> T0 + TickMs] } : n \in { IdA, IdB } }

Supervise == SuperviseOn(LifeListings)

Watch ==
  \/ Advance
  \/ \E id \in JobIds : GuardTick(id)

\* The same with the clock stopping at limit.
WatchTo(limit) ==
  \/ AdvanceTo(limit)
  \/ \E id \in JobIds : GuardTick(id)

OutputLife ==
  \E id \in JobIds, src \in Sources, chunk \in ChunksLife :
    /\ hist[id].outLines + NonBlank(chunk) <= MaxLifeLines
    /\ OnData(id, src, chunk, 49155)

\* outcomes: what the tools of strategy 2 may do.
StopRequestsOn(outcomes) ==
  \/ \E id \in JobIds, tool \in outcomes, route \in BOOLEAN, ds \in BOOLEAN :
       StopRequest(id, tool, route, ds)
  \/ \E id \in JobIds, ok \in BOOLEAN, tool \in outcomes, route \in BOOLEAN, ds \in BOOLEAN :
       StopBaseReply(id, ok, tool, route, ds)
  \/ \E id \in JobIds, ok \in BOOLEAN, ds \in BOOLEAN : StopContainerReply(id, ok, ds)

\* Every tool works, or none does.
LifeOutcomes == { NoTool, AllTools }
StopRequests == StopRequestsOn(LifeOutcomes)

\* The stop handler and its SIGKILL timer; the pid is not reused.
StopCascade ==
  \/ StopRequests
  \/ \E id \in JobIds : KillTimer(id, FALSE)

\* Every event of a job, interleaved; ALLOW_DOCKER_STOP unset or "0".
InitLife == Init /\ cfg.dockerStopEnv # "1"

Next == Supervise \/ WatchTo(IdleHorizon) \/ OutputLife \/ StopCascade

Spec == InitLife /\ [][Next]_vars

\* Stop requests against a job in every stage of its life, in every
\* configuration, without the clock.
NextStop ==
  \/ Supervise
  \/ OutputLife
  \/ StopRequests
  \/ \E id \in JobIds, reused \in BOOLEAN : KillTimer(id, reused)

SpecStop == Init /\ [][NextStop]_vars

\* A job without output, so without container name, with MEET_BOT_BASE
\* configured and ALLOW_DOCKER_STOP=0, under the scheduling the runtime
\* provides: time passes and the interval fires, a killed process exits, the
\* 500 ms sleep ends, the 2 s timer fires, and the HTTP call answers or times
\* out.  Nothing makes a live worker exit on its own or on SIGTERM, or its
\* pipes close.
InitFair == Init /\ cfg = [base |-> TRUE, dockerStopEnv |-> "0"]

NextFair ==
  \/ Supervise
  \/ Watch
  \/ \E id \in JobIds : StopRequest(id, NoTool, FALSE, FALSE)
  \/ \E id \in JobIds, ok \in BOOLEAN : StopBaseReply(id, ok, NoTool, FALSE, FALSE)
  \/ \E id \in JobIds : KillTimer(id, FALSE)

\* The 500 ms sleep of the close handler ends: weak fairness of CloseResume,
\* which is enabled exactly when it is due.  Nothing makes 'close' follow
\* 'exit': a descendant that holds the worker's pipes withholds it.
ScanResume(id) ==
  \E entries \in LifeListings, fallback \in DirNames \cup { <<>> } :
    CloseResume(id, entries, fallback)
SleepFair(id) == []<>(~ResumeDue(id)) \/ []<><<ScanResume(id)>>_vars
\* A watchdog that is due eventually runs: weak fairness of GuardTick.
TickFair(id) == []<>(~TickDue(id)) \/ []<><<GuardTick(id)>>_vars

Fairness ==
  /\ WF_vars(Advance)
  /\ \A id \in JobIds :
       /\ TickFair(id)
       /\ WF_vars(KilledExit(id))
       /\ SleepFair(id)
       /\ WF_vars(KillTimer(id, FALSE))
       /\ WF_vars(\E ok \in BOOLEAN : StopBaseReply(id, ok, NoTool, FALSE, FALSE))

SpecFair == InitFair /\ [][NextFair]_vars /\ Fairness

\* A running job that has logged "spawned" and then output lines numbered by
\* their position, LogHeadroom short of the cap; the worker prints LogLines
\* more on stdout, in chunks of one or two lines.
LogStart == LOG_CAP - LogHeadroom
TextLine(n) == << Frag("text", << ToString(n) >>) >>
NumberedLine(n) ==
  IF n = 1 THEN ApiLine(<<"spawned">>) ELSE BotLine("[bot:stdout]", TextLine(n))
LoggedJob(id) ==
  [ id |-> id, status |-> "running", meeting_url |-> MeetingUrl, bot_name |-> BotName,
    extra |-> <<>>, createdAt |-> T0, updatedAt |-> T0, startedAt |-> T0,
    logs |-> [ i \in 1..LogStart |-> NumberedLine(i) ],
    clients |-> EmptyObj, recordingsDir |-> RecordingsDir, pid |-> 4242 ]
InitLog ==
  /\ cfg = [base |-> FALSE, dockerStopEnv |-> "absent"]
  /\ up = TRUE
  /\ tr = TrInit
  /\ now = T0
  /\ JOBS = [j \in JobIds |-> LoggedJob(j)]
  /\ CHILDREN = JobIds
  /\ sup = [j \in JobIds |-> [ SupInit EXCEPT !.proc = "running", !.lastActivity = T0,
                                               !.startedAt = T0, !.guard = TRUE,
                                               !.lastTick = T0 ]]
  /\ stop = [j \in JobIds |-> StopInit]
  /\ hist = [j \in JobIds |-> [ HistInit EXCEPT !.lastChunkAt = T0, !.chunks = 1,
                                                 !.outLines = LogStart - 1 ]]
  /\ reply = Request(<<"jobs">>, API_KEY, MeetingUrl, TRUE, "next")

NextLog ==
  \E id \in JobIds, k \in 1..2 :
    /\ hist[id].outLines + k < LogStart + LogLines
    /\ OnData(id, "[bot:stdout]", [ i \in 1..k |-> TextLine(hist[id].outLines + 1 + i) ], 0)

SpecLog == InitLog /\ [][NextLog]_vars

\* One output line of a running worker, made of up to MaxFrags fragments: text,
\* or the text of any identifier rule around an identifier-shaped or another
\* value.
RuleFrags ==
  { Frag(UUID_PATTERNS[r], v) : r \in 1..Len(UUID_PATTERNS), v \in { IdA, IdB, <<"tmp">> } }
    \cup { Frag("text", <<"joining">>) }
RuleLines == UNION { [ 1..n -> RuleFrags ] : n \in 1..MaxFrags }

NextRules ==
  \/ \E id \in JobIds : Submit(id, "ok")
  \/ \E id \in JobIds, src \in Sources, line \in RuleLines :
       /\ hist[id].outLines = 0
       /\ OnData(id, src, << line >>, 0)

SpecRules == InitDefault /\ [][NextRules]_vars

\* Log relay: a running worker printing chunks of one or two lines, possibly
\* with a blank line between, on both streams, while consumers come and go.
Streams == {"res1", "res2"}
RelayLines == { << Frag("text", <<"joining">>) >>, << Frag("json_bot_uuid", IdA) >> }
RelayChunks ==
  { << <<>> >> } \cup { << l >> : l \in RelayLines }
    \cup { << l, <<>>, m >> : l \in RelayLines, m \in RelayLines }

NextRelay ==
  \/ \E id \in JobIds : Submit(id, "ok")
  \/ \E id \in JobIds, src \in Sources, chunk \in RelayChunks :
       /\ hist[id].outLines + NonBlank(chunk) <= MaxRelayLines
       /\ OnData(id, src, chunk, 0)
  \/ \E id \in JobIds, res \in Streams : Subscribe(id, res)
  \/ \E id \in JobIds, res \in Streams : Unsubscribe(id, res)

SpecRelay == InitDefault /\ [][NextRelay]_vars

\* Requests with and without the API key, valid or not, against a job in
\* every stage of its life.
ReadPaths ==
  { << "health" >>, << "s3", "presign-get" >>, << "jobs", "logs" >> }
    \cup { << "jobs", id, r >> : id \in JobIds, r \in { "status", "logs" } }

NextHttp ==
  \/ \E key \in Keys, url \in { MeetingUrl, <<>> }, script \in BOOLEAN,
        id \in JobIds, spawn \in SpawnOutcomes : PostJobs(key, url, script, id, spawn)
  \/ \E key \in Keys, id \in JobIds, tool \in { NoTool, AllTools } : PostStop(key, id, tool, FALSE, FALSE)
  \/ \E key \in Keys, path \in ReadPaths : Get(path, key)
  \/ \E id \in JobIds, ok \in BOOLEAN : StopBaseReply(id, ok, NoTool, FALSE, FALSE)
  \/ \E id \in JobIds, x \in ExitInputs : ChildExit(id, x[1], x[2])
  \/ \E id \in JobIds : CloseBegin(id)
  \/ \E id \in JobIds, entries \in LifeListings, fallback \in DirNames \cup { <<>> } :
       CloseResume(id, entries, fallback)
  \/ \E id \in JobIds : KillTimer(id, FALSE)

\* ALLOW_DOCKER_STOP=0, MEET_BOT_BASE set or not
InitHttp == Init /\ cfg.dockerStopEnv = "0"

SpecHttp == InitHttp /\ [][NextHttp]_vars

\* The supervisor and its watchdog, without stop requests.
NextWatch == Supervise \/ Watch \/ OutputLife

SpecWatch == InitDefault /\ [][NextWatch]_vars

\* Output discovery: every chunk of Chunks, the host-port retries and every
\* directory listing, without clock or stop requests.
NextOut ==
  \/ SuperviseOn(DirListings(T0))
  \/ \E id \in JobIds, src \in Sources, chunk \in Chunks, hp \in HostPorts :
       /\ hist[id].outLines + NonBlank(chunk) <= MaxOutLines
       /\ hp = 0 \/ HasContainerLine(chunk)
       /\ OnData(id, src, chunk, hp)
  \/ \E id \in JobIds, hp \in HostPorts : HostPortRetry(id, hp)

SpecOut == InitDefault /\ [][NextOut]_vars

\* A worker that may keep printing empty lines, so that the idle watchdog
\* never finds it silent, and may or may not exit on its own; no stop requests.
\* The clock runs, every armed watchdog eventually ticks, a killed worker
\* exits and the 500 ms sleep ends.
NextLive ==
  \/ Supervise
  \/ Watch
  \/ \E id \in JobIds : OnData(id, "[bot:stdout]", << <<>> >>, 0)

FairLive ==
  /\ WF_vars(Advance)
  /\ \A id \in JobIds :
       /\ TickFair(id)
       /\ WF_vars(KilledExit(id))
       /\ SleepFair(id)

SpecLive == InitDefault /\ [][NextLive]_vars /\ FairLive

\* Two jobs submitted with the same recordings directory.  The worker of
\* job1 uses the identifier A and the worker of job2 the identifier B: each
\* may print its identifier once and may have written the directory of that
\* name by the time a fallback scan lists the directory; both exit with code 0.
WorkerUuid(id) == IF id = "job1" THEN IdA ELSE IdB

Written ==
  { [name |-> WorkerUuid(j), t |-> T0 + TickMs] : j \in { k \in AllJobs : sup[k].proc # "none" } }

NextPair ==
  \/ \E id \in AllJobs : Submit(id, "ok")
  \/ \E id \in AllJobs :
       /\ hist[id].outLines = 0
       /\ OnData(id, "[bot:stdout]", << << Frag("json_bot_uuid", WorkerUuid(id)) >> >>, 0)
  \/ \E id \in AllJobs : ChildExit(id, 0, "null")
  \/ \E id \in AllJobs : CloseBegin(id)
  \/ \E id \in AllJobs, entries \in SUBSET Written, fallback \in DirNames \cup { <<>> } :
       CloseResume(id, entries, fallback)

SpecPair == InitDefault /\ [][NextPair]_vars

\* The calls on the two instances and the resumptions of their runs.
Rest == << cfg, up, now, JOBS, CHILDREN, sup, stop, hist, reply >>

AudioTranscriberStart(segments) ==
  /\ Len(tr.AudioTranscriber.runs) < MaxStarts
  /\ tr' = [ tr EXCEPT !.AudioTranscriber = begin(@, "load", segments) ]
  /\ UNCHANGED Rest

AudioTranscriberStop ==
  /\ tr' = [ tr EXCEPT !.AudioTranscriber = halt(@) ]
  /\ UNCHANGED Rest

AudioTranscriberResume(r, ok) ==
  /\ r \in ActiveRuns(tr.AudioTranscriber)
  /\ tr' = [ tr EXCEPT !.AudioTranscriber = transcriberResume(@, r, ok) ]
  /\ UNCHANGED Rest

MeetingSummarizerStart ==
  /\ Len(tr.MeetingSummarizer.runs) < MaxStarts
  /\ tr' = [ tr EXCEPT !.MeetingSummarizer = begin(@, "read", 0) ]
  /\ UNCHANGED Rest

MeetingSummarizerStop ==
  /\ tr' = [ tr EXCEPT !.MeetingSummarizer = halt(@) ]
  /\ UNCHANGED Rest

MeetingSummarizerResume(r, ok) ==
  /\ r \in ActiveRuns(tr.MeetingSummarizer)
  /\ tr' = [ tr EXCEPT !.MeetingSummarizer = summarizerResume(@, r, ok) ]
  /\ UNCHANGED Rest

NextRuns ==
  \/ \E segments \in 0..MaxSegments : AudioTranscriberStart(segments)
  \/ AudioTranscriberStop
  \/ \E r \in 1..MaxStarts, ok \in BOOLEAN : AudioTranscriberResume(r, ok)
  \/ MeetingSummarizerStart
  \/ MeetingSummarizerStop
  \/ \E r \in 1..MaxStarts, ok \in BOOLEAN : MeetingSummarizerResume(r, ok)

SpecRuns == InitDefault /\ [][NextRuns]_vars

\* Stop requests against a running job whose container name may be known,
\* with every combination of working and failing tools inside the container.
NextExec ==
  \/ \E id \in JobIds : Submit(id, "ok")
  \/ OutputLife
  \/ StopRequestsOn(ExecResults)
  \/ \E id \in JobIds : KillTimer(id, FALSE)

SpecExec == Init /\ [][NextExec]_vars

\* ------------------------------------------------------------------ properties
Terminal == {"done", "error", "timeout"}
Created == DOMAIN JOBS
Job(id) == JobsGet(JOBS, id)

\* C1: once a job's status is done, error or timeout, no event changes it.
C1_TerminalStatusIsFinal ==
  [][ \A id \in Created :
        StatusOf(JOBS[id]) \in Terminal => StatusOf(JOBS'[id]) = StatusOf(JOBS[id]) ]_vars

\* C2: a job's status becomes stopping only from status running.
C2_StoppingOnlyFromRunning ==
  [][ \A id \in Created :
        (StatusOf(JOBS'[id]) = "stopping" /\ StatusOf(JOBS[id]) # "stopping")
          => StatusOf(JOBS[id]) = "running" ]_vars

Reconciled(id) == sup[id].closePc # "done" /\ sup'[id].closePc = "done"
C3_Row(j, code, signal) ==
  IF signal # "null"
  THEN StatusOf(j) = "error" /\ ErrorOf(j) = <<"killed_by_", signal>> /\ j.signal = signal
  ELSE IF code = 0
  THEN IF Truthy(j, "uuid") THEN StatusOf(j) = "done"
       ELSE StatusOf(j) = "error" /\ ErrorOf(j) = <<"completed_without_uuid">>
  ELSE StatusOf(j) = "error" /\ ErrorOf(j) = <<"bot_failed">> /\ j.exitCode = code
\* C3: the step that reconciles the worker's close sets status and reason by
\* the first matching row of the table: signal S -> error/killed_by_S; code 0
\* with an identifier -> done; code 0 without -> error/completed_without_uuid;
\* any other code -> error/bot_failed with that exit code.
C3_ExitReconciliation ==
  [][ \A id \in JobIds :
        Reconciled(id) => C3_Row(JOBS'[id], sup'[id].code, sup'[id].signal) ]_vars
C3_Witness ==
  \E id \in Created :
    /\ sup[id].closePc = "done" /\ sup[id].code = 0 /\ sup[id].signal = "null"
    /\ StatusOf(JOBS[id]) = "error" /\ ErrorOf(JOBS[id]) = <<"completed_without_uuid">>

\* C4: every value written to a job's identifier equals the first one written.
C4_IdentifierWrittenOnce ==
  \A id \in JobIds : \A i \in DOMAIN hist[id].uuidW : hist[id].uuidW[i] = hist[id].uuidW[1]

\* C5: when a line set the identifier through an identifier rule and a later
\* line matched a different identifier, the job's identifier is the first one.
C5_FirstIdentifierLineWins ==
  \A id \in JobIds :
    (hist[id].firstRule # <<>> /\ hist[id].conflict)
      => Str(Job(id), "uuid") = hist[id].firstRule

\* C6: the container name of a job, once set from an output line, is never
\* changed by a later line naming another container.
C6_ContainerNameWrittenOnce ==
  \A id \in JobIds :
    /\ \A i \in DOMAIN hist[id].cnameW : hist[id].cnameW[i] = hist[id].cnameW[1]
    /\ hist[id].cnameW # <<>> => Str(Job(id), "containerName") = hist[id].cnameW[1]
C6_Witness ==
  \E id \in Created :
    /\ Truthy(JOBS[id], "containerName")
    /\ \E i \in DOMAIN JOBS[id].logs, k \in DOMAIN JOBS[id].logs :
         /\ i < k
         /\ matchContainerName(JOBS[id].logs[i].l) = JOBS[id].containerName
         /\ matchContainerName(JOBS[id].logs[k].l) \notin { <<>>, JOBS[id].containerName }

Silent(id) == hist[id].chunks = 0
Ticked(id) == sup'[id].lastTick # sup[id].lastTick
SpawnedAt(id) == JOBS[id].startedAt
C7_SilentPastIdle(id) ==
  /\ id \in Created /\ sup[id].proc = "running" /\ Silent(id)
  /\ now - SpawnedAt(id) > BOT_IDLE_TIMEOUT_MS
\* C7: the watchdog of a worker that printed nothing and has not ended is
\* armed once the idle window is exceeded, and its next run kills the worker
\* and sets timeout/idle_timeout; no such worker outlasts that run.
C7_SilentWorkerIdleTimeout ==
  /\ [](\A id \in JobIds : C7_SilentPastIdle(id) => sup[id].guard /\ hist[id].fires = <<>>)
  /\ [][ \A id \in JobIds :
           (C7_SilentPastIdle(id) /\ Ticked(id))
             => /\ sup'[id].proc = "killed"
                /\ StatusOf(JOBS'[id]) = "timeout"
                /\ ErrorOf(JOBS'[id]) = <<"idle_timeout">> ]_vars
\* C7, amended: the same, the reason being idle_timeout when that run finds
\* the absolute timeout not exceeded, and max_time_exceeded when it comes so
\* late that the absolute timeout is exceeded as well.
C7_SilentWorkerTimeout ==
  /\ [](\A id \in JobIds : C7_SilentPastIdle(id) => sup[id].guard /\ hist[id].fires = <<>>)
  /\ [][ \A id \in JobIds :
           (C7_SilentPastIdle(id) /\ Ticked(id))
             => /\ sup'[id].proc = "killed"
                /\ StatusOf(JOBS'[id]) = "timeout"
                /\ ErrorOf(JOBS'[id]) =
                     IF now - SpawnedAt(id) > BOT_MAX_TIMEOUT_MS
                     THEN <<"max_time_exceeded">> ELSE <<"idle_timeout">> ]_vars
C7_Witness ==
  \E id \in Created :
    /\ Silent(id) /\ sup[id].proc = "killed"
    /\ StatusOf(JOBS[id]) = "timeout" /\ ErrorOf(JOBS[id]) = <<"idle_timeout">>

\* C8: the idle watchdog expires only when more than the idle timeout has
\* passed since the last output chunk on either stream (or since spawn).
C8_OutputResetsIdle ==
  \A id \in JobIds : \A i \in DOMAIN hist[id].fires :
    hist[id].fires[i].reason = "idle_timeout" => hist[id].fires[i].gap > BOT_IDLE_TIMEOUT_MS
C8_Witness ==
  \E id \in Created :
    /\ hist[id].chunks = 2 /\ sup[id].proc = "running" /\ hist[id].fires = <<>>
    /\ now - SpawnedAt(id) > BOT_IDLE_TIMEOUT_MS + TickMs
    /\ now - hist[id].lastChunkAt = BOT_IDLE_TIMEOUT_MS
    /\ sup[id].lastTick = now

C9_PastMax(id) ==
  /\ id \in Created /\ sup[id].proc = "running"
  /\ now - SpawnedAt(id) > BOT_MAX_TIMEOUT_MS
\* C9: the watchdog of a worker still running once the absolute timeout is
\* exceeded is armed, and its next run kills the worker and sets
\* timeout/max_time_exceeded, whatever the last output time; no running worker
\* outlasts that run.
C9_AbsoluteTimeout ==
  /\ [](\A id \in JobIds : C9_PastMax(id) => sup[id].guard /\ hist[id].fires = <<>>)
  /\ [][ \A id \in JobIds :
           (C9_PastMax(id) /\ Ticked(id))
             => /\ sup'[id].proc = "killed"
                /\ StatusOf(JOBS'[id]) = "timeout"
                /\ ErrorOf(JOBS'[id]) = <<"max_time_exceeded">> ]_vars
C9_Witness ==
  \E id \in Created :
    /\ sup[id].proc = "killed"
    /\ StatusOf(JOBS[id]) = "timeout" /\ ErrorOf(JOBS[id]) = <<"max_time_exceeded">>
    /\ hist[id].fires # <<>> /\ hist[id].fires[1].gap = 0

\* C10: no watchdog run sets status timeout once the worker has exited.
C10_NoTimeoutAfterExit ==
  [][ \A id \in Created :
        sup[id].proc \in {"exited", "closed"}
          => ~(StatusOf(JOBS'[id]) = "timeout" /\ StatusOf(JOBS[id]) # "timeout") ]_vars

\* C11: a job leaves status stopping only for done or error, and only in the
\* step that reconciles the worker's close.
C11_StoppingLeavesOnlyByClose ==
  [][ \A id \in Created :
        (StatusOf(JOBS[id]) = "stopping" /\ StatusOf(JOBS'[id]) # "stopping")
          => StatusOf(JOBS'[id]) \in {"done", "error"} /\ Reconciled(id) ]_vars

\* What the claims on eventual termination assume of the worker: 'close'
\* follows its 'exit' (or its failed spawn).
CloseFollowsExit ==
  \A id \in JobIds : []<>(~CloseDue(id)) \/ []<><<CloseBegin(id)>>_vars

\* C12: when 'close' follows 'exit', a job in status stopping eventually has
\* status done or error.
C12_StoppingEventuallyEnds ==
  CloseFollowsExit =>
    \A id \in JobIds :
      (id \in Created /\ StatusOf(Job(id)) = "stopping")
        ~> (id \in Created /\ StatusOf(Job(id)) \in {"done", "error"})

\* C13: the log buffer never holds more than 5000 lines and always equals the
\* most recent (at most 5000) appended lines, in append order.
Appended(id) == hist[id].outLines + 1
C13_LogBufferKeepsMostRecent ==
  \A id \in Created :
    LET logs == JOBS[id].logs
        n == Appended(id)
    IN /\ Len(logs) <= 5000
       /\ Len(logs) = IF n < 5000 THEN n ELSE 5000
       /\ \A i \in 1..Len(logs) : logs[i].l = NumberedLine(n - Len(logs) + i).l
C13_Witness ==
  \E id \in Created :
    /\ Appended(id) > LOG_CAP + 2
    /\ Len(JOBS[id].logs) = LOG_CAP
    /\ JOBS[id].logs[1].l = TextLine(Appended(id) - LOG_CAP + 1)
    /\ JOBS[id].logs[LOG_CAP].l = TextLine(Appended(id))

Range(seq) == { seq[i] : i \in DOMAIN seq }
Vias ==
  [ stop_record_http_base |-> 1, stop_record_docker_exec |-> 2,
    stop_record_http_container |-> 3, docker_stop_name |-> 4, local_kill |-> 5 ]
Succeeded(st) == st.result \in DOMAIN Vias
\* The strategies 1-4 a request may use, given its job snapshot and the configuration.
Applicable(e, st) ==
  CASE e = 1 -> cfg.base /\ st.payload
    [] e \in {2, 3} -> st.cname # <<>> /\ st.payload
    [] e = 4 -> ALLOW_DOCKER_STOP /\ st.cname # <<>>
    [] OTHER -> FALSE
\* C14: a stop request attempts the strategies in the order 1, 2, 3, 4, 5; it
\* attempts one only after every earlier applicable one was attempted and
\* failed, and the one that succeeds is the last one attempted.
C14_StrategiesInOrder ==
  \A id \in JobIds :
    LET st == stop[id] IN
    /\ \A i \in DOMAIN st.tried, k \in DOMAIN st.tried : i < k => st.tried[i] < st.tried[k]
    /\ Succeeded(st) => st.tried # <<>> /\ st.tried[Len(st.tried)] = Vias[st.result]
    /\ \A k \in Range(st.tried) : \A e \in 1..(k - 1) : Applicable(e, st) => e \in Range(st.tried)
C14_Witness ==
  \E id \in JobIds : stop[id].tried = << 1, 2, 3, 4, 5 >> /\ stop[id].result = "local_kill"

\* C15: with MEET_BOT_BASE configured every stop request starts with strategy
\* 1, and when that call succeeds the request reports stop_record_http_base
\* having attempted nothing else and having signalled nothing.
BaseSucceeds(id) ==
  stop[id].pc = "s1" /\ stop'[id].result = "stop_record_http_base"
C15_BaseSuccessStopsCascade ==
  /\ [](\A id \in JobIds :
         (cfg.base /\ stop[id].n > 0)
           => /\ stop[id].tried # <<>> /\ stop[id].tried[1] = 1
              /\ stop[id].result = "stop_record_http_base" => stop[id].tried = << 1 >>)
  /\ [][ \A id \in JobIds :
           BaseSucceeds(id)
             => sup' = sup /\ CHILDREN' = CHILDREN /\ stop'[id].pc = "idle" ]_vars
C15_Witness ==
  \E id \in JobIds :
    /\ stop[id].result = "stop_record_http_base" /\ stop[id].tried = << 1 >>
    /\ stop[id].cname # <<>> /\ ALLOW_DOCKER_STOP
    /\ id \in CHILDREN /\ sup[id].proc = "running"
    /\ ~sup[id].term /\ sup[id].killTimers = 0

\* A step in which a stop request sends its response.
Completes(id) ==
  stop'[id].pc = "idle" /\ (stop[id].pc # "idle" \/ stop'[id].n # stop[id].n)
\* No identifier, no container name, ALLOW_DOCKER_STOP off, no child handle.
NothingToStop(id) ==
  /\ id \in Created
  /\ ~Truthy(JOBS[id], "uuid") /\ ~Truthy(JOBS[id], "containerName")
  /\ ~ALLOW_DOCKER_STOP
  /\ id \notin CHILDREN
\* C16: a stop request on a job with no identifier, no container name and no
\* child handle, with docker stop disabled, answers stop_unavailable, whether
\* or not MEET_BOT_BASE is configured.
C16_NothingToStopIsUnavailable ==
  [][ \A id \in JobIds :
        (Completes(id) /\ NothingToStop(id)) => stop'[id].result = "stop_unavailable" ]_vars
\* C16, amended: such a request answers stop_unavailable unless the call to
\* the configured MEET_BOT_BASE succeeded.
C16_UnavailableUnlessBaseSucceeds ==
  [][ \A id \in JobIds :
        (Completes(id) /\ NothingToStop(id) /\ ~BaseSucceeds(id))
          => stop'[id].result = "stop_unavailable" ]_vars
C16_Witness ==
  \E id \in JobIds :
    /\ NothingToStop(id) /\ cfg.base
    /\ stop[id].pc = "idle" /\ stop[id].tried = << 1 >>
    /\ stop[id].result = "stop_unavailable"

\* The strategies of a completed request that were attempted without effect.
FailedIn(e, st) ==
  /\ e \in Range(st.tried)
  /\ IF e = 5 THEN ~st.termSent ELSE ~(Succeeded(st) /\ Vias[st.result] = e)
AllFailed(st) ==
  \A e \in 1..5 : (Applicable(e, st) \/ e \in Range(st.tried)) => FailedIn(e, st)
\* C17: a completed stop request answers stop_unavailable exactly when every
\* applicable strategy was attempted and failed (or none was applicable).
C17_UnavailableIffAllFailed ==
  \A id \in JobIds :
    (stop[id].pc = "idle" /\ stop[id].n > 0)
      => ((stop[id].result = "stop_unavailable") <=> AllFailed(stop[id]))

\* C18: the step in which a stop request reports success leaves the job in
\* status stopping, and no step of a stop request sets another status.
C18_SuccessSetsStopping ==
  [][ \A id \in Created :
        /\ (Completes(id) /\ Succeeded(stop'[id])) => StatusOf(JOBS'[id]) = "stopping"
        /\ stop'[id] # stop[id]
             => StatusOf(JOBS'[id]) \in { StatusOf(JOBS[id]), "stopping" } ]_vars
C18_Witness ==
  \E id \in Created :
    /\ stop[id].pc = "idle" /\ stop[id].result = "stop_record_http_container"
    /\ StatusOf(JOBS[id]) = "stopping"

\* C19: docker stop is attempted only when ALLOW_DOCKER_STOP is explicitly
\* enabled and none of strategies 1-3 succeeded; with the setting absent or
\* disabled no stop request performs it.
C19_DockerStopOnlyIfEnabled ==
  \A id \in JobIds :
    4 \in Range(stop[id].tried)
      => /\ cfg.dockerStopEnv = "1"
         /\ ~(Succeeded(stop[id]) /\ Vias[stop[id].result] \in 1..3)

\* C20: the local-signal strategy sends SIGTERM first, and the SIGKILL of its
\* timer goes out only while the worker is alive: none is delivered on the
\* pid of a worker that has exited.
C20_NoForcedKillAfterExit ==
  \A id \in JobIds :
    /\ ~hist[id].lateKill
    /\ (sup[id].killTimers > 0 /\ stop[id].result = "local_kill" /\ sup[id].proc = "running")
         => sup[id].term

\* C21: every step that changes a job leaves its updatedAt at the time of the
\* step, so updatedAt is never older than the job's latest mutation.
C21_UpdatedAtRefreshed ==
  [][ \A id \in DOMAIN JOBS' :
        JobsGet(JOBS, id) # JOBS'[id] => JOBS'[id].updatedAt = now' ]_vars

\* The fields written at exit reconciliation.
ExitFields == {"exitCode", "signal", "error"}
FieldChanged(j, k, f) == Has(k, f) /\ (~Has(j, f) \/ j[f] # k[f])
\* C22: exit code, signal and failure reason are written only in the step that
\* reconciles the worker's close, and only when not yet set.
C22_ExitFieldsWrittenOnceAtClose ==
  [][ \A id \in Created : \A f \in ExitFields :
        FieldChanged(JOBS[id], JOBS'[id], f)
          => Reconciled(id) /\ ~Has(JOBS[id], f) ]_vars

\* The entries a fallback scan may pick: identifier-shaped name, modified at
\* or after the job's start minus the skew tolerance.
Qualifies(e, id) == isUuidDirName(e.name) /\ e.t >= JOBS[id].startedAt - SKEW_MS
CleanExit(id) == sup[id].code = 0 /\ sup[id].signal = "null"
\* C23: the close handler waits and scans exactly when the worker closed with
\* code 0, no signal and no identifier; the scan sets the identifier to the
\* name of a most recently modified qualifying entry, or leaves it unset when
\* none qualifies; a close without scan leaves the identifier as it was.
C23_FallbackScan ==
  [][ \A id \in Created :
        /\ (sup[id].proc = "exited" /\ sup'[id].proc = "closed")
             => /\ (sup'[id].closePc = "sleep")
                     <=> (CleanExit(id) /\ ~Truthy(JOBS[id], "uuid"))
                /\ Str(JOBS'[id], "uuid") = Str(JOBS[id], "uuid")
        /\ (sup[id].closePc = "sleep" /\ sup'[id].closePc = "done")
             => LET Q == { e \in hist'[id].scanned : Qualifies(e, id) }
                IN IF Q = {} THEN ~Truthy(JOBS'[id], "uuid")
                   ELSE \E e \in Q : /\ Str(JOBS'[id], "uuid") = e.name
                                     /\ \A y \in Q : y.t <= e.t ]_vars
\* The same for the scans in which fs.statSync succeeds on every entry with an
\* identifier-shaped name; in the others the identifier stays unset.
C23_FallbackScanWhenStatSucceeds ==
  [][ \A id \in Created :
        (sup[id].closePc = "sleep" /\ sup'[id].closePc = "done")
          => LET S == { e \in hist'[id].scanned : isUuidDirName(e.name) }
                 Q == { e \in S : Qualifies(e, id) }
             IN IF Q = {} \/ \E e \in S : e.t = NoStat
                THEN ~Truthy(JOBS'[id], "uuid")
                ELSE \E e \in Q : /\ Str(JOBS'[id], "uuid") = e.name
                                  /\ \A y \in Q : y.t <= e.t ]_vars

\* An identifier rule matches the fragment; the rule's place in the list.
Hit(f) == f.k \in Range(UUID_PATTERNS) /\ isUuidDirName(f.v)
Rank(k) == CHOOSE r \in 1..Len(UUID_PATTERNS) : UUID_PATTERNS[r] = k
\* C24: the identifier taken from a job's first output line is the value
\* matched by the earliest rule of the list that matches the line, wherever the
\* other matches stand in the line (the leftmost match of that rule); a line
\* matching no rule leaves the identifier unset.
C24_EarliestRuleWins ==
  \A id \in Created :
    hist[id].outLines = 1 =>
      LET L == JOBS[id].logs[Len(JOBS[id].logs)].l
          u == Str(JOBS[id], "uuid")
      IN IF \A i \in DOMAIN L : ~Hit(L[i]) THEN u = <<>>
         ELSE \E i \in DOMAIN L :
                /\ Hit(L[i]) /\ u = L[i].v
                /\ \A k \in DOMAIN L :
                     Hit(L[k]) => \/ Rank(L[k].k) > Rank(L[i].k)
                                  \/ Rank(L[k].k) = Rank(L[i].k) /\ k >= i
C24_Witness ==
  \E id \in Created :
    /\ hist[id].outLines = 1
    /\ JOBS[id].logs[Len(JOBS[id].logs)].l = << Frag("json_id", IdA), Frag("recordings_path", IdB) >>
    /\ Str(JOBS[id], "uuid") = IdB

\* "meetbot-" followed by an identifier-shaped string.
EmbedsIdentifier(cname) ==
  Len(cname) = 2 /\ cname[1] = "meetbot-" /\ isUuidDirName(Tail(cname))
\* C25: capturing a container name sets the job's identifier from it exactly
\* when the name is meetbot-<identifier> and the job has no identifier then.
C25_IdentifierFromContainerName ==
  \A id \in JobIds : \A i \in DOMAIN hist[id].captures :
    LET c == hist[id].captures[i]
    IN c.setUuid <=> (EmbedsIdentifier(c.cname) /\ ~c.hadUuid)

\* The parameters of the submission, as the job holds them.
Params(j) ==
  [ meeting_url |-> Str(j, "meeting_url"), bot_name |-> Str(j, "bot_name"),
    extra |-> Str(j, "extra") ]
\* C26: a job holds the target URL, name and extras it was submitted with,
\* whatever output, watchdog, exit, error and stop events have happened.
C26_SubmissionParamsKept ==
  \A id \in Created :
    /\ {"meeting_url", "bot_name", "extra"} \subseteq DOMAIN JOBS[id]
    /\ Params(JOBS[id]) = [ meeting_url |-> MeetingUrl, bot_name |-> BotName, extra |-> <<>> ]
C26_Witness ==
  \E id \in Created :
    /\ sup[id].closePc = "done" /\ hist[id].outLines > 0
    /\ hist[id].fires # <<>> /\ Succeeded(stop[id])
    /\ Params(JOBS[id]) = [ meeting_url |-> MeetingUrl, bot_name |-> BotName, extra |-> <<>> ]

IsBotLine(e) == e.src \in Sources
\* C27: the buffer holds the non-empty lines of the captured chunks in arrival
\* order, each tagged with its stream, and every registered subscriber has
\* received exactly the lines appended since it registered, once each and in
\* that order.
C27_LinesRelayedInOrder ==
  \A id \in Created :
    LET logs == JOBS[id].logs
    IN /\ SelectSeq(logs, IsBotLine) = hist[id].arrived
       /\ \A res \in DOMAIN JOBS[id].clients :
            JOBS[id].clients[res] = SubSeq(logs, hist[id].subAt[res] + 1, Len(logs))
C27_Witness ==
  \E id \in Created :
    /\ DOMAIN JOBS[id].clients = Streams
    /\ hist[id].subAt["res1"] = 2 /\ hist[id].subAt["res2"] = 3
    /\ Len(JOBS[id].logs) = 4
    /\ JOBS[id].logs[3].src # JOBS[id].logs[4].src
    /\ JOBS[id].clients["res1"] = << JOBS[id].logs[3], JOBS[id].logs[4] >>

\* The fields the handler that ran in a step patches.
Patched(id) ==
  IF stop'[id] # stop[id] THEN {"status"}
  ELSE IF sup'[id].lastTick # sup[id].lastTick THEN {"status", "error", "logs", "clients"}
  ELSE IF hist'[id].arrived # hist[id].arrived
  THEN {"uuid", "containerName", "hostPort8080", "logs", "clients"}
  ELSE IF sup'[id].hpRetry # sup[id].hpRetry THEN {"hostPort8080", "logs", "clients"}
  ELSE IF sup'[id].closePc # sup[id].closePc
  THEN {"uuid", "status", "exitCode", "signal", "error", "recordings", "logs", "clients"}
  ELSE {}
\* C28: no patch loses an update: in every interleaving of output, watchdog,
\* close, host-port and stop handlers, a step keeps every field of the job that
\* its own handler does not write, at the value the last patch gave it.
C28_NoLostUpdate ==
  [][ \A id \in Created : \A f \in DOMAIN JOBS[id] :
        f \notin Patched(id) => Has(JOBS'[id], f) /\ JOBS'[id][f] = JOBS[id][f] ]_vars
C28_Witness ==
  \E id \in Created :
    /\ stop[id].pc = "idle" /\ stop[id].result = "stop_record_http_base"
    /\ stop[id].cname = <<>> /\ Truthy(JOBS[id], "containerName")
    /\ Has(JOBS[id], "hostPort8080")
    /\ StatusOf(JOBS[id]) = "stopping"

Unchanged == UNCHANGED << JOBS, CHILDREN, sup, stop, hist >>
Answered == reply' # reply
\* C29: a submission without target URL, or made while the run script is
\* missing, is answered with an error and creates no job, no process and no
\* watchdog; with no job accepted there is no process, handle or timer at all.
C29_RejectedSubmissionCreatesNothing ==
  /\ [](Created = {} => CHILDREN = {} /\ \A id \in JobIds : sup[id] = SupInit)
  /\ [][ (Answered /\ reply'.path = << "jobs" >> /\ (reply'.url = <<>> \/ ~reply'.script))
           => /\ Unchanged
              /\ reply'.out \in { "unauthorized", "meeting_url required",
                                  "run script not found" } ]_vars
C29_Witness ==
  /\ reply = Request(<< "jobs" >>, API_KEY, MeetingUrl, FALSE, "run script not found")
  /\ Created = {} /\ CHILDREN = {}

IsLogStream(path) == Len(path) = 3 /\ path[1] = "jobs" /\ path[3] = "logs"
\* C30: a request that is not a log-stream request reaches its route only with
\* the configured API key; without it the request is answered unauthorized
\* and changes nothing.
C30_KeyRequiredExceptLogStream ==
  [][ (Answered /\ ~IsLogStream(reply'.path))
        => /\ reply'.out # "unauthorized" => reply'.key = API_KEY
           /\ reply'.key # API_KEY => reply'.out = "unauthorized" /\ Unchanged ]_vars
\* C30, amended: the same for every request whose path is neither /health nor
\* a path that starts with /jobs/ and ends with /logs.
C30_KeyRequiredExceptHealthAndLogs ==
  [][ (Answered /\ reply'.path # << "health" >>
         /\ ~(Len(reply'.path) >= 2 /\ reply'.path[1] = "jobs"
                /\ reply'.path[Len(reply'.path)] = "logs"))
        => /\ reply'.out # "unauthorized" => reply'.key = API_KEY
           /\ reply'.key # API_KEY => reply'.out = "unauthorized" /\ Unchanged ]_vars
C30_Witness ==
  \E id \in Created :
    /\ reply = Request(<< "jobs", id, "stop" >>, << "wrong" >>, <<>>, TRUE, "unauthorized")
    /\ stop[id].n = 0 /\ StatusOf(JOBS[id]) = "running"

Live(id) == sup[id].proc \in {"running", "killed", "exited", "failed", "nochild"}
\* C31: a job has a registered process handle exactly while the child that
\* spawn returned has not closed; a worker starts only in the step that creates
\* the job, and once it has ended none starts again.
C31_OneHandlePerJob ==
  /\ [](\A id \in JobIds : id \in CHILDREN <=> Live(id))
  /\ [][ \A id \in JobIds :
           (sup'[id].proc = "running" /\ sup[id].proc # "running")
             => id \notin Created /\ sup[id].proc = "none" ]_vars
C31_Witness ==
  \E id \in Created :
    /\ sup[id].proc = "closed" /\ JOBS[id].pid = 4242 /\ id \notin CHILDREN
    /\ stop[id].n > 0 /\ hist[id].fires # <<>>

\* C32: when strategy 2 is attempted the tools run in the order node, python3,
\* curl, wget, busybox wget; every tool run before the last one failed; the
\* request succeeds via docker exec exactly when the last tool run exited with
\* status 0, which is the case whenever some tool would; otherwise all five
\* were run and the cascade went on to strategy 3.
C32_ToolsInOrderFirstSuccessWins ==
  \A id \in JobIds :
    LET st == stop[id]
        n == Len(st.ran)
    IN 2 \in Range(st.tried) =>
         /\ n >= 1
         /\ \A i \in 1..n : st.ran[i] = i
         /\ \A i \in 1..(n - 1) : ~st.results[i]
         /\ st.result = "stop_record_docker_exec" <=> st.results[n]
         /\ (\E t \in ExecTools : st.results[t]) => st.result = "stop_record_docker_exec"
         /\ st.result # "stop_record_docker_exec" =>
              /\ st.ran = << 1, 2, 3, 4, 5 >>
              /\ \E i \in 1..(Len(st.tried) - 1) : st.tried[i] = 2 /\ st.tried[i + 1] = 3
C32_Witness ==
  \E id \in JobIds :
    /\ stop[id].result = "stop_record_docker_exec"
    /\ stop[id].ran = << 1, 2, 3 >>
    /\ stop[id].results[4]
    /\ StatusOf(Job(id)) = "stopping"
C32_WitnessAllFail ==
  \E id \in JobIds :
    /\ stop[id].ran = << 1, 2, 3, 4, 5 >>
    /\ stop[id].result \in { "docker_stop_name", "local_kill", "stop_record_http_container" }

\* C33: a job whose status is done has an identifier, exit code 0, no signal
\* and no failure reason.
C33_DoneIsClean ==
  \A id \in Created :
    StatusOf(JOBS[id]) = "done"
      => /\ Truthy(JOBS[id], "uuid")
         /\ Has(JOBS[id], "exitCode") /\ JOBS[id].exitCode = 0
         /\ Has(JOBS[id], "signal") /\ JOBS[id].signal = "null"
         /\ ErrorOf(JOBS[id]) = <<>>
\* The same without the failure reason.
C33_DoneHasIdentifierAndCleanExit ==
  \A id \in Created :
    StatusOf(JOBS[id]) = "done"
      => /\ Truthy(JOBS[id], "uuid")
         /\ Has(JOBS[id], "exitCode") /\ JOBS[id].exitCode = 0
         /\ Has(JOBS[id], "signal") /\ JOBS[id].signal = "null"

\* C34: a job whose status is done, error or timeout has no process handle
\* registered, and no stop request answers local_kill for a job that was in
\* one of these statuses when the request took the local-signal strategy.
C34_TerminalHasNoHandle ==
  /\ [](\A id \in Created : StatusOf(JOBS[id]) \in Terminal => id \notin CHILDREN)
  /\ [][ \A id \in Created :
           (StatusOf(JOBS[id]) \in Terminal /\ stop'[id] # stop[id])
             => stop'[id].result # "local_kill" ]_vars
\* The same for the statuses written by the close handler only.
C34_ClosedHasNoHandle ==
  \A id \in Created :
    (sup[id].closePc = "done" /\ StatusOf(JOBS[id]) \in Terminal) => id \notin CHILDREN

\* The job has the pid of a worker that was started.
WorkerSpawned(id) == id \in Created /\ Has(Job(id), "pid") /\ Job(id).pid # 0
\* C35: when the clock runs and the watchdog ticks, every job whose worker
\* was spawned eventually has a terminal status, and a worker still running
\* once the absolute timeout is exceeded does not stay running: it exits or is
\* force-killed by the next tick; when 'close' follows 'exit', the job
\* eventually has a terminal status and a closed, reconciled worker.
C35_SpawnedEventuallyTerminal ==
  /\ \A id \in JobIds :
       /\ WorkerSpawned(id) ~> (StatusOf(Job(id)) \in Terminal)
       /\ (id \in Created /\ sup[id].proc = "running"
             /\ now - sup[id].startedAt > BOT_MAX_TIMEOUT_MS)
            ~> (sup[id].proc # "running")
  /\ CloseFollowsExit =>
       \A id \in JobIds :
         WorkerSpawned(id)
           ~> (sup[id].closePc = "done" /\ StatusOf(Job(id)) \in Terminal
                 /\ id \notin CHILDREN)
C35_Witness ==
  \E id \in Created :
    /\ sup[id].closePc = "done" /\ sup[id].signal = "SIGKILL"
    /\ hist[id].fires # <<>> /\ hist[id].fires[1].reason = "max_time_exceeded"
    /\ StatusOf(Job(id)) \in Terminal

\* C36: the step that answers a stop request with job_not_found, and every
\* step of a stop request that does not report success, in particular the one
\* that answers stop_unavailable, leaves the job registry as it was: no job
\* appears and no field of a job changes.
C36_FailedStopChangesNoJob ==
  [][ \A id \in JobIds :
        /\ (Answered /\ reply'.path = << "jobs", id, "stop" >>
              /\ reply'.out = "job_not_found")
             => JOBS' = JOBS /\ id \notin DOMAIN JOBS' /\ stop' = stop
        /\ (stop'[id] # stop[id] /\ ~Succeeded(stop'[id])) => JOBS' = JOBS ]_vars
C36_Witness ==
  \E id \in Created :
    /\ stop[id].pc = "idle" /\ stop[id].n > 0 /\ stop[id].result = "stop_unavailable"
    /\ 1 \in Range(stop[id].tried)
    /\ StatusOf(JOBS[id]) = "error"
C36_WitnessUnknown ==
  /\ reply.out = "job_not_found" /\ reply.key = API_KEY
  /\ Created = {}

\* C37: a stop request answers local_kill, and sets status stopping through
\* strategy 5, only when process.kill(pid, "SIGTERM") delivered the signal.
C37_LocalKillOnlyIfSignalled ==
  \A id \in JobIds :
    stop[id].result = "local_kill" => stop[id].termSent

BothExceeded(id) ==
  /\ now - sup[id].lastActivity > BOT_IDLE_TIMEOUT_MS
  /\ now - sup[id].startedAt > BOT_MAX_TIMEOUT_MS
\* C38: the watchdog run that finds both the absolute and the idle timeout
\* exceeded records max_time_exceeded; a job's watchdog fires at most once: the
\* run that fires disarms it, and no later run kills or sets timeout again.
C38_MaxWinsAndFiresOnce ==
  /\ [](\A id \in JobIds :
          /\ Len(hist[id].fires) <= 1
          /\ hist[id].fires # <<>> => ~sup[id].guard)
  /\ [][ \A id \in Created :
           /\ (Ticked(id) /\ BothExceeded(id))
                => /\ StatusOf(JOBS'[id]) = "timeout"
                   /\ ErrorOf(JOBS'[id]) = <<"max_time_exceeded">>
                   /\ ~sup'[id].guard
           /\ hist[id].fires # <<>> => ~Ticked(id) ]_vars
C38_Witness ==
  \E id \in Created :
    /\ Len(hist[id].fires) = 1
    /\ hist[id].fires[1].reason = "max_time_exceeded"
    /\ hist[id].fires[1].gap > BOT_IDLE_TIMEOUT_MS
    /\ hist[id].fires[1].alive > BOT_MAX_TIMEOUT_MS
    /\ hist[id].fires[1].proc = "running"
    /\ sup[id].closePc = "done"

\* C39: of two jobs over the same recordings directory, neither is recorded
\* with the identifier used by the other's worker, and the two never hold
\* the same identifier.
C39_NoCrossJobIdentifier ==
  \A i \in Created, j \in Created :
    (i # j /\ Truthy(JOBS[i], "uuid"))
      => /\ JOBS[i].uuid # WorkerUuid(j)
         /\ JOBS[i].uuid # Str(JOBS[j], "uuid")
\* The same for identifiers captured from the worker's own output.
C39_PrintedIdentifierIsOwn ==
  \A i \in Created :
    (Truthy(JOBS[i], "uuid") /\ hist[i].outLines > 0) => JOBS[i].uuid = WorkerUuid(i)

Instances == DOMAIN tr
Started(i) == Len(tr'[i].runs) = Len(tr[i].runs) + 1
\* C40: an instance never has two runs of start() in progress; a start()
\* made while a run is in progress is rejected, and one made while none is in
\* progress is accepted.
C40_OneRunAtATime ==
  /\ [](\A i \in Instances : Cardinality(ActiveRuns(tr[i])) <= 1)
  /\ [][ \A i \in Instances :
           Started(i) =>
             (tr'[i].runs[Len(tr'[i].runs)].pc = "rejected" <=> ActiveRuns(tr[i]) # {}) ]_vars
\* The same for an instance on which stop() was never called.
C40_OneRunWithoutStop ==
  \A i \in Instances : ~tr[i].stopped => Cardinality(ActiveRuns(tr[i])) <= 1
====
